---- MODULE Spec2Model ----
(***************************************************************************)
(* Verification model of the ai_training_catalog package.                  *)
(*                                                                         *)
(* Part 1 (specification Spec): the resource catalog                       *)
(*   discovery/catalog.py   ResourceCatalog  (_cache, _loaded, upsert)     *)
(*   storage/repository.py  ResourceRepository (save, delete, find_all)    *)
(*   storage/json_store.py  JsonStore (_lock, _read_sync, _write_sync)     *)
(* Part 2 (specification SpecHttp): the fetch layer                        *)
(*   utils/http_client.py   HttpClient (_semaphore, get, retry policy)     *)
(*   utils/rate_limiter.py  RateLimiter (_locks, _last_request, acquire)   *)
(* Part 3 (specification SpecSearch): the searchers                        *)
(*   discovery/searchers/*.py  GoogleSearcher, GitHubSearcher,             *)
(*                             ArxivSearcher (search)                      *)
(*   discovery/agent.py        DiscoveryAgent._search_one                  *)
(* Each specification moves the variables of its own part and leaves the   *)
(* others as they were initially.                                          *)
(*                                                                         *)
(* Scheduling.  The package runs on one asyncio event loop.  A coroutine   *)
(* keeps the loop until it awaits something that is not ready.  Inside the *)
(* catalog and the store the only such await is the acquisition of         *)
(* JsonStore._lock; file I/O is synchronous.  A task is therefore          *)
(* modelled with its position pc[t]; a task that has begun an operation    *)
(* runs it step by step while the others stay where they are, and a lock   *)
(* acquisition is enabled only when the lock is free.  The steps of a file *)
(* write are separate because the file system is visible between them      *)
(* to a crash of the process and to readers outside it.                    *)
(***************************************************************************)
EXTENDS Integers, Sequences, FiniteSets, TLC

\* ---- bounds of the model ------------------------------------------------
NumTasks == 2
NumIds == 2
MaxScore == 1
MaxStamp == 2

\* Settings.min_quality_score; quality scores are counted in steps of it.
MinQualityScore == 1

Tasks == 1..NumTasks
Ids == 1..NumIds
Scores == 0..MaxScore
Stamps == 1..MaxStamp
\* upsert's min_score: its default 0.0 (ingestion) or the setting (discovery)
MinScores == {0, MinQualityScore}
NoTask == 0

\* ---- dictionaries (Python dict keyed by resource id) ----------------------
EmptyDict == [i \in {} |-> 0]

DictPut(d, k, v) == [i \in (DOMAIN d) \cup {k} |-> IF i = k THEN v ELSE d[i]]

DictPop(d, k) == [i \in (DOMAIN d) \ {k} |-> d[i]]

Max(a, b) == IF a >= b THEN a ELSE b

\* ---- Resource ------------------------------------------------------------
\* models/resource.py: the fields the catalog reads or writes.
Resource(i, s, d) == [id |-> i, quality_score |-> s, discovered_at |-> d]

NoResource == Resource(0, 0, 0)

\* The calls of upsert that are tried: resource 1 is submitted with every score,
\* timestamp and threshold; the other resources with one fixed value each (the
\* catalog treats every id alike, they are there for the frame).
Submissions ==
    {<<Resource(1, s, d), m>> : s \in Scores, d \in Stamps, m \in MinScores}
        \cup {<<Resource(i, 0, 1), 0>> : i \in Ids \ {1}}

\* Resource.model_dump(mode="json"): field by field.
ModelDump(r) ==
    [id |-> r.id, quality_score |-> r.quality_score, discovered_at |-> r.discovered_at]

\* Resource.model_validate(raw): field by field.
ModelValidate(raw) == Resource(raw.id, raw.quality_score, raw.discovered_at)

VARIABLES
    file,        \* the backing file of the JsonStore: [exists, complete, data]
    tmp,         \* the temporary file of the write in progress: [state, data]
    lock,        \* JsonStore._lock: the task holding it, or NoTask
    cache,       \* ResourceCatalog._cache
    loaded,      \* ResourceCatalog._loaded
    pc,          \* position of each task
    op,          \* the operation a task runs: "upsert", "get_all", "delete"
    resource,    \* upsert's / delete's argument (the object upsert mutates)
    min_score,   \* upsert's min_score argument
    is_new,      \* upsert's local is_new
    removed,     \* delete's local removed
    updated,     \* JsonStore.update's local updated
    result,      \* what the call gave its caller: "none", "true", "false", "ok", "raised"
    \* history variables (not program state)
    first,       \* per id: discovered_at of the first sighting known to this catalog, 0 if none
    best,        \* per id: greatest score submitted to this catalog, -1 if none
    seen,        \* per task: the id was known to the catalog when the call merged
    entry,       \* per task: the store's data when the task took the lock
    submitted,   \* per task: upsert's resource as the caller passed it (kept until the save)
    batch,       \* ids saved by the completed calls of the current batch of calls
    loads        \* how often this catalog has built its index from the store

storeVars == <<file, tmp, lock>>
catalogVars == <<cache, loaded>>
taskVars == <<pc, op, resource, min_score, is_new, removed, updated, result>>
histVars == <<first, best, seen, entry, submitted, batch, loads>>
catVars == <<storeVars, catalogVars, taskVars, histVars>>

\* ---- JsonStore -------------------------------------------------------------
NoTmp == [state |-> "none", data |-> EmptyDict]

\* JsonStore._read_sync: {} when the file is missing, else its content.
ReadSync(f) == IF ~f.exists THEN EmptyDict ELSE f.data

\* Mutant of Upsert_: the transform starts from a fresh dict.
UpsertFresh(data, r) == DictPut(EmptyDict, r.id, ModelDump(r))

\* Mutant of Upsert_: the transform leaves the data as it was.
UpsertSkipped(data, r) == data

\* ResourceRepository.save._upsert
Upsert_(data, r) == DictPut(data, r.id, ModelDump(r))

\* ResourceRepository.delete._del
Del_(data, k) == DictPop(data, k)

\* ResourceCatalog._ensure_loaded: {r.id: r for r in find_all()}
LoadAll(data) ==
    LET rs == {ModelValidate(data[k]) : k \in DOMAIN data}
    IN  [i \in {r.id : r \in rs} |-> CHOOSE r \in rs : r.id = i]

\* Mutant of NeedsLoad: every call builds the index anew.
NeedsLoadAlways(is_loaded) == TRUE

\* ResourceCatalog._ensure_loaded: if not self._loaded
NeedsLoad(is_loaded) == ~is_loaded

\* Mutant of MergeScore: the new score replaces the old one.
MergeScoreLast(new, old) == new

\* ResourceCatalog.upsert: the merge with the existing entry
MergeScore(new, old) == Max(new, old)

MergeDiscovered(new, old) == old

\* Mutant of IsNew: every accepted resource counts as new.
IsNewAlways(r, index) == TRUE

\* ResourceCatalog.upsert: is_new = resource.id not in self._cache
IsNew(r, index) == r.id \notin DOMAIN index

Running == {t \in Tasks : pc[t] \notin {"idle", "pending"}}

CatInit ==
    /\ file = [exists |-> FALSE, complete |-> TRUE, data |-> EmptyDict]
    /\ tmp = NoTmp
    /\ lock = NoTask
    /\ cache = EmptyDict
    /\ loaded = FALSE
    /\ pc = [t \in Tasks |-> "idle"]
    /\ op = [t \in Tasks |-> "none"]
    /\ resource = [t \in Tasks |-> NoResource]
    /\ min_score = [t \in Tasks |-> 0]
    /\ is_new = [t \in Tasks |-> FALSE]
    /\ removed = [t \in Tasks |-> FALSE]
    /\ updated = [t \in Tasks |-> EmptyDict]
    /\ result = [t \in Tasks |-> "none"]
    /\ first = [i \in Ids |-> 0]
    /\ best = [i \in Ids |-> -1]
    /\ seen = [t \in Tasks |-> FALSE]
    /\ entry = [t \in Tasks |-> EmptyDict]
    /\ submitted = [t \in Tasks |-> NoResource]
    /\ batch = {}
    /\ loads = 0

\* A caller awaits one call: it is pending until the event loop runs it.
Call(t) ==
    /\ \A u \in Tasks : pc[u] = "idle"
    /\ pc' = [pc EXCEPT ![t] = "pending"]
    /\ batch' = {}
    /\ UNCHANGED <<storeVars, catalogVars, op, resource, min_score, is_new, removed,
                   updated, result, first, best, seen, entry, submitted, loads>>

\* A caller starts one call per task at once (asyncio.gather): all are pending
\* and the event loop runs them in any order.
Gather ==
    /\ \A u \in Tasks : pc[u] = "idle"
    /\ pc' = [u \in Tasks |-> "pending"]
    /\ batch' = {}
    /\ UNCHANGED <<storeVars, catalogVars, op, resource, min_score, is_new, removed,
                   updated, result, first, best, seen, entry, submitted, loads>>

Begin(t, o, r, m, next) ==
    /\ pc[t] = "pending"
    /\ Running = {}
    /\ pc' = [pc EXCEPT ![t] = next]
    /\ op' = [op EXCEPT ![t] = o]
    /\ resource' = [resource EXCEPT ![t] = r]
    /\ min_score' = [min_score EXCEPT ![t] = m]
    /\ submitted' = [submitted EXCEPT ![t] = IF o = "upsert" THEN r ELSE NoResource]
    /\ UNCHANGED <<storeVars, catalogVars, is_new, removed, updated, result,
                   first, best, seen, entry, batch, loads>>

\* The event loop starts ResourceCatalog.upsert(resource, min_score).
BeginUpsert(t) == \E sm \in Submissions : Begin(t, "upsert", sm[1], sm[2], "gate")

\* The event loop starts ResourceCatalog.get_all().
BeginGetAll(t) == Begin(t, "get_all", NoResource, 0, "load")

\* The event loop starts ResourceRepository.delete(resource_id).
BeginDelete(t) == \E i \in Ids : Begin(t, "delete", Resource(i, 0, 0), 0, "lock")

\* upsert: if resource.quality_score < min_score: return False
UpsertGate(t) ==
    /\ pc[t] = "gate"
    /\ IF resource[t].quality_score < min_score[t]
       THEN /\ pc' = [pc EXCEPT ![t] = "return"]
            /\ result' = [result EXCEPT ![t] = "false"]
       ELSE /\ pc' = [pc EXCEPT ![t] = "load"]
            /\ UNCHANGED result
    /\ UNCHANGED <<storeVars, catalogVars, op, resource, min_score, is_new, removed,
                   updated, histVars>>

\* _ensure_loaded, reading through JsonStore.read (under the lock) when the
\* index has not been built yet.
EnsureLoaded(t) ==
    /\ pc[t] = "load"
    /\ IF NeedsLoad(loaded)
       THEN /\ lock = NoTask
            /\ cache' = LoadAll(ReadSync(file))
            /\ loaded' = TRUE
            /\ loads' = loads + 1
            /\ first' = [i \in Ids |-> IF i \in DOMAIN cache'
                                        THEN cache'[i].discovered_at ELSE 0]
            /\ best' = [i \in Ids |-> IF i \in DOMAIN cache'
                                       THEN cache'[i].quality_score ELSE -1]
       ELSE UNCHANGED <<cache, loaded, first, best, loads>>
    /\ IF op[t] = "upsert"
       THEN /\ pc' = [pc EXCEPT ![t] = "merge"]
            /\ UNCHANGED result
       ELSE /\ pc' = [pc EXCEPT ![t] = "return"]
            /\ result' = [result EXCEPT ![t] = "ok"]
    /\ UNCHANGED <<storeVars, op, resource, min_score, is_new, removed, updated,
                   seen, entry, submitted, batch>>

\* upsert: is_new, the merge with the existing entry, self._cache[id] = resource
UpsertMerge(t) ==
    LET r == resource[t]
        new == IsNew(r, cache)
        merged == IF r.id \notin DOMAIN cache THEN r
                  ELSE Resource(r.id,
                                MergeScore(r.quality_score, cache[r.id].quality_score),
                                MergeDiscovered(r.discovered_at, cache[r.id].discovered_at))
    IN  /\ pc[t] = "merge"
        /\ is_new' = [is_new EXCEPT ![t] = new]
        /\ resource' = [resource EXCEPT ![t] = merged]
        /\ cache' = DictPut(cache, r.id, merged)
        /\ pc' = [pc EXCEPT ![t] = "lock"]
        /\ seen' = [seen EXCEPT ![t] = best[r.id] >= 0]
        /\ best' = [best EXCEPT ![r.id] = Max(@, r.quality_score)]
        /\ first' = [first EXCEPT ![r.id] = IF @ = 0 THEN r.discovered_at ELSE @]
        /\ UNCHANGED <<storeVars, loaded, op, min_score, removed, updated, result,
                       entry, submitted, batch, loads>>

\* JsonStore.update: async with self._lock: current = self._read_sync();
\* updated = transform(current).  The lock is taken only when it is free.
UpdateTransform(t) ==
    LET current == ReadSync(file)
    IN  /\ pc[t] = "lock"
        /\ lock = NoTask
        /\ lock' = t
        /\ entry' = [entry EXCEPT ![t] = current]
        /\ IF op[t] = "upsert"
           THEN /\ updated' = [updated EXCEPT ![t] = Upsert_(current, resource[t])]
                /\ UNCHANGED removed
           ELSE /\ updated' = [updated EXCEPT ![t] = Del_(current, resource[t].id)]
                /\ removed' = [removed EXCEPT ![t] = resource[t].id \in DOMAIN current]
        /\ pc' = [pc EXCEPT ![t] = "mkstemp"]
        /\ submitted' = [submitted EXCEPT ![t] = NoResource]
        /\ UNCHANGED <<file, tmp, catalogVars, op, resource, min_score, is_new, result,
                       first, best, seen, batch, loads>>

\* _write_sync: tempfile.mkstemp creates an empty temporary file
WriteMkstemp(t) ==
    /\ pc[t] = "mkstemp"
    /\ tmp' = [state |-> "empty", data |-> EmptyDict]
    /\ pc' = [pc EXCEPT ![t] = "dump"]
    /\ UNCHANGED <<file, lock, catalogVars, op, resource, min_score, is_new,
                   removed, updated, result, histVars>>

\* Mutant of WriteDump: json.dump writes into the backing file itself.
WriteDumpInPlace(t) ==
    /\ pc[t] = "dump"
    /\ \E ok \in BOOLEAN :
         IF ok
         THEN /\ file' = [exists |-> TRUE, complete |-> TRUE, data |-> updated[t]]
              /\ tmp' = [state |-> "full", data |-> updated[t]]
              /\ pc' = [pc EXCEPT ![t] = "replace"]
         ELSE /\ file' = [exists |-> TRUE, complete |-> FALSE, data |-> EmptyDict]
              /\ tmp' = [state |-> "partial", data |-> EmptyDict]
              /\ pc' = [pc EXCEPT ![t] = "except"]
    /\ UNCHANGED <<lock, catalogVars, op, resource, min_score, is_new,
                   removed, updated, result, histVars>>

\* _write_sync: json.dump into the temporary file; it may fail part-way
WriteDump(t) ==
    /\ pc[t] = "dump"
    /\ \E ok \in BOOLEAN :
         IF ok
         THEN /\ tmp' = [state |-> "full", data |-> updated[t]]
              /\ pc' = [pc EXCEPT ![t] = "replace"]
         ELSE /\ tmp' = [state |-> "partial", data |-> EmptyDict]
              /\ pc' = [pc EXCEPT ![t] = "except"]
    /\ UNCHANGED <<file, lock, catalogVars, op, resource, min_score, is_new,
                   removed, updated, result, histVars>>

\* _write_sync: Path(tmp).replace(self._path), an atomic rename; it may fail
WriteReplace(t) ==
    /\ pc[t] = "replace"
    /\ \E ok \in BOOLEAN :
         IF ok
         THEN /\ file' = [exists |-> TRUE, complete |-> tmp.state = "full",
                          data |-> tmp.data]
              /\ tmp' = NoTmp
              /\ pc' = [pc EXCEPT ![t] = "release"]
         ELSE /\ pc' = [pc EXCEPT ![t] = "except"]
              /\ UNCHANGED <<file, tmp>>
    /\ UNCHANGED <<lock, catalogVars, op, resource, min_score, is_new,
                   removed, updated, result, histVars>>

\* _write_sync: except BaseException: unlink the temporary file and re-raise;
\* the exception leaves "async with self._lock" and reaches the caller of the call.
WriteExcept(t) ==
    /\ pc[t] = "except"
    /\ tmp' = NoTmp
    /\ lock' = NoTask
    /\ result' = [result EXCEPT ![t] = "raised"]
    /\ pc' = [pc EXCEPT ![t] = "return"]
    /\ UNCHANGED <<file, catalogVars, op, resource, min_score, is_new,
                   removed, updated, histVars>>

\* The write succeeded: the lock is released, save/delete return, and upsert
\* returns is_new (delete returns removed).
UpdateReturn(t) ==
    /\ pc[t] = "release"
    /\ lock' = NoTask
    /\ result' = [result EXCEPT ![t] =
                    IF op[t] = "upsert"
                    THEN (IF is_new[t] THEN "true" ELSE "false")
                    ELSE (IF removed[t] THEN "true" ELSE "false")]
    /\ batch' = IF op[t] = "upsert" THEN batch \cup {resource[t].id}
                ELSE batch \ {resource[t].id}
    /\ pc' = [pc EXCEPT ![t] = "return"]
    /\ UNCHANGED <<file, tmp, catalogVars, op, resource, min_score, is_new,
                   removed, updated, first, best, seen, entry, submitted, loads>>

\* The caller has the result (or the exception); the call's frame is gone.
Finish(t) ==
    /\ pc[t] = "return"
    /\ pc' = [pc EXCEPT ![t] = "idle"]
    /\ op' = [op EXCEPT ![t] = "none"]
    /\ resource' = [resource EXCEPT ![t] = NoResource]
    /\ min_score' = [min_score EXCEPT ![t] = 0]
    /\ is_new' = [is_new EXCEPT ![t] = FALSE]
    /\ removed' = [removed EXCEPT ![t] = FALSE]
    /\ updated' = [updated EXCEPT ![t] = EmptyDict]
    /\ result' = [result EXCEPT ![t] = "none"]
    /\ seen' = [seen EXCEPT ![t] = FALSE]
    /\ entry' = [entry EXCEPT ![t] = EmptyDict]
    /\ submitted' = [submitted EXCEPT ![t] = NoResource]
    /\ UNCHANGED <<storeVars, catalogVars, first, best, batch, loads>>

\* The process dies (at any step) and a new process constructs a new store,
\* repository and catalog over the same path.  A temporary file of a write in
\* progress stays on disk.
Crash ==
    /\ \E t \in Tasks : pc[t] /= "idle"
    /\ tmp' = NoTmp
    /\ lock' = NoTask
    /\ cache' = EmptyDict
    /\ loaded' = FALSE
    /\ pc' = [t \in Tasks |-> "idle"]
    /\ op' = [t \in Tasks |-> "none"]
    /\ resource' = [t \in Tasks |-> NoResource]
    /\ min_score' = [t \in Tasks |-> 0]
    /\ is_new' = [t \in Tasks |-> FALSE]
    /\ removed' = [t \in Tasks |-> FALSE]
    /\ updated' = [t \in Tasks |-> EmptyDict]
    /\ result' = [t \in Tasks |-> "none"]
    /\ first' = [i \in Ids |-> 0]
    /\ best' = [i \in Ids |-> -1]
    /\ seen' = [t \in Tasks |-> FALSE]
    /\ entry' = [t \in Tasks |-> EmptyDict]
    /\ submitted' = [t \in Tasks |-> NoResource]
    /\ batch' = {}
    /\ loads' = 0
    /\ UNCHANGED file

CatNext ==
    \/ \E t \in Tasks : Call(t)
    \/ Gather
    \/ \E t \in Tasks : BeginUpsert(t)
    \/ \E t \in Tasks : BeginGetAll(t)
    \/ \E t \in Tasks : BeginDelete(t)
    \/ \E t \in Tasks : UpsertGate(t)
    \/ \E t \in Tasks : EnsureLoaded(t)
    \/ \E t \in Tasks : UpsertMerge(t)
    \/ \E t \in Tasks : UpdateTransform(t)
    \/ \E t \in Tasks : WriteMkstemp(t)
    \/ \E t \in Tasks : WriteDump(t)
    \/ \E t \in Tasks : WriteReplace(t)
    \/ \E t \in Tasks : WriteExcept(t)
    \/ \E t \in Tasks : UpdateReturn(t)
    \/ \E t \in Tasks : Finish(t)
    \/ Crash

\* ==========================================================================
\* Part 2 (specification SpecHttp): the fetch layer
\*   utils/http_client.py   HttpClient (_semaphore, get and its retry policy)
\*   utils/rate_limiter.py  RateLimiter (_locks, _last_request, acquire)
\*
\* Scheduling.  Every call of HttpClient.get is a coroutine of its own.  It
\* is suspended where the code awaits something that is not ready: the
\* per-host lock, the limiter's sleep, the semaphore, the network, and the
\* sleep between two attempts.  What lies between two such points is one step.
\* Time is counted in ticks; a coroutine that is ready to run does so before
\* the clock moves on; the network answers after any number of ticks.
\* ==========================================================================

\* ---- bounds of the model ------------------------------------------------
NumFetchers == 2
NumHosts == 2
\* Settings.max_concurrent_requests, scaled down
MaxConcurrentRequests == 1

\* Settings.rate_limit_per_second
RateLimitPerSecond == 2
\* RateLimiter._interval, 1 / rate seconds: the length of one tick
Interval == 1
TicksPerSecond == RateLimitPerSecond * Interval

\* stop_after_attempt(3)
MaxAttempts == 3
\* wait_exponential(multiplier=1, min=1, max=10), in seconds
WaitMultiplier == 1
WaitMin == 1
WaitMax == 10

Fetchers == 1..NumFetchers
Hosts == 1..NumHosts
NoHost == 0

Min(a, b) == IF a <= b THEN a ELSE b

\* What one attempt ends with: a response with a 2xx status, a response with
\* another status, aiohttp.ClientError / asyncio.TimeoutError, or any other
\* exception.
Outcomes == {"2xx", "non2xx", "transient", "other"}

VARIABLES
    semaphore,      \* HttpClient._semaphore: its value (the free slots)
    locks,          \* RateLimiter._locks: per host, the call holding the lock, or NoTask
    elapsed,        \* per host: loop.time() - _last_request[host], counted up to Interval
    fpc,            \* position of each call of get
    url,            \* get's argument: the host of the url
    attempt,        \* the number of the attempt the call is in (tenacity's attempt_number)
    timer,          \* ticks left of the asyncio.sleep the call is in
    outcome,        \* how the call's latest attempt ended, "none" while it runs
    \* history variables (not program state)
    since_dispatch, \* per host: ticks since a request was last sent to it, counted up to Interval
    failed          \* per call: its attempts that ended with ClientError / TimeoutError

httpVars ==
    <<semaphore, locks, elapsed, fpc, url, attempt, timer, outcome, since_dispatch, failed>>

\* ---- the retry policy of HttpClient.get --------------------------------------
\* Mutant of RetryIfExceptionType: every exception is retried.
RetryIfAnyException(o) == o \in {"transient", "other"}

\* retry_if_exception_type((aiohttp.ClientError, asyncio.TimeoutError))
RetryIfExceptionType(o) == o = "transient"

\* stop_after_attempt(3)
StopAfterAttempt(n) == n >= MaxAttempts

\* wait_exponential: the seconds tenacity sleeps after attempt n
WaitExponential(n) ==
    LET exp == 2 ^ (n - 1)
        res == WaitMultiplier * exp
    IN  Max(Max(0, WaitMin), Min(res, WaitMax))

\* Mutant of SemaphoreFree: the semaphore never makes a caller wait.
SemaphoreAlwaysFree == TRUE

\* asyncio.Semaphore: acquire goes through while the value is positive
SemaphoreFree == semaphore > 0

HttpInit ==
    /\ semaphore = MaxConcurrentRequests
    /\ locks = [h \in Hosts |-> NoTask]
    /\ elapsed = [h \in Hosts |-> Interval]
    /\ fpc = [f \in Fetchers |-> "idle"]
    /\ url = [f \in Fetchers |-> NoHost]
    /\ attempt = [f \in Fetchers |-> 0]
    /\ timer = [f \in Fetchers |-> 0]
    /\ outcome = [f \in Fetchers |-> "none"]
    /\ since_dispatch = [h \in Hosts |-> Interval]
    /\ failed = [f \in Fetchers |-> 0]

\* HttpClient.get, "async with self._semaphore" and session.get: with a free
\* slot the request is sent at once, else the call waits for a slot.
EnterSemaphore(f, h) ==
    IF SemaphoreFree
    THEN /\ semaphore' = semaphore - 1
         /\ fpc' = [fpc EXCEPT ![f] = "flight"]
         /\ since_dispatch' = [since_dispatch EXCEPT ![h] = 0]
    ELSE /\ fpc' = [fpc EXCEPT ![f] = "sem"]
         /\ UNCHANGED <<semaphore, since_dispatch>>

\* The host's lock stays with the call that leaves acquire (mutant).
LockAfterExitKept(holder) == holder

\* "async with self._locks[domain]" is left: the lock is released.
LockAfterExit(holder) == NoTask

\* RateLimiter.acquire up to its first suspension: the call waits for the
\* host's lock if it is held; else it takes it and sleeps for the rest of the
\* interval, or, with nothing left to wait for, sets _last_request, releases
\* the lock and goes on to the semaphore in the same step.
LimiterAcquire(f, h) ==
    IF locks[h] /= NoTask
    THEN /\ fpc' = [fpc EXCEPT ![f] = "acquire"]
         /\ UNCHANGED <<locks, timer, elapsed, semaphore, since_dispatch>>
    ELSE LET wait == Interval - elapsed[h]
         IN  IF wait > 0
             THEN /\ locks' = [locks EXCEPT ![h] = f]
                  /\ timer' = [timer EXCEPT ![f] = wait]
                  /\ fpc' = [fpc EXCEPT ![f] = "sleep"]
                  /\ UNCHANGED <<elapsed, semaphore, since_dispatch>>
             ELSE /\ elapsed' = [elapsed EXCEPT ![h] = 0]
                  /\ EnterSemaphore(f, h)
                  /\ UNCHANGED <<locks, timer>>

\* A caller awaits HttpClient.get(url): the first attempt begins.
FetchCall(f) ==
    /\ fpc[f] = "idle"
    /\ \E h \in Hosts :
        /\ url' = [url EXCEPT ![f] = h]
        /\ LimiterAcquire(f, h)
    /\ attempt' = [attempt EXCEPT ![f] = 1]
    /\ UNCHANGED <<outcome, failed>>

\* A call that waited for the host's lock finds it free.
LimiterEnter(f) ==
    /\ fpc[f] = "acquire"
    /\ locks[url[f]] = NoTask
    /\ LimiterAcquire(f, url[f])
    /\ UNCHANGED <<url, attempt, outcome, failed>>

\* RateLimiter.acquire after its sleep: _last_request is set, the host's lock
\* released, and the call goes on to the semaphore.
LimiterWake(f) ==
    /\ fpc[f] = "sleep"
    /\ timer[f] = 0
    /\ elapsed' = [elapsed EXCEPT ![url[f]] = 0]
    /\ locks' = [locks EXCEPT ![url[f]] = LockAfterExit(f)]
    /\ EnterSemaphore(f, url[f])
    /\ UNCHANGED <<url, attempt, timer, outcome, failed>>

\* A call that waited for the semaphore gets a slot and sends its request.
SemAcquire(f) ==
    /\ fpc[f] = "sem"
    /\ SemaphoreFree
    /\ semaphore' = semaphore - 1
    /\ fpc' = [fpc EXCEPT ![f] = "flight"]
    /\ since_dispatch' = [since_dispatch EXCEPT ![url[f]] = 0]
    /\ UNCHANGED <<locks, elapsed, url, attempt, timer, outcome, failed>>

\* The attempt ends: the semaphore's slot is given back, and tenacity either
\* returns the response, raises the exception or sleeps before the next attempt.
Respond(f) ==
    /\ fpc[f] = "flight"
    /\ semaphore' = semaphore + 1
    /\ \E o \in Outcomes :
        /\ outcome' = [outcome EXCEPT ![f] = o]
        /\ failed' = [failed EXCEPT ![f] = IF o = "transient" THEN failed[f] + 1 ELSE failed[f]]
        /\ IF o \in {"2xx", "non2xx"}
           THEN /\ fpc' = [fpc EXCEPT ![f] = "returned"]
                /\ url' = [url EXCEPT ![f] = NoHost]
                /\ UNCHANGED timer
           ELSE IF RetryIfExceptionType(o) /\ ~StopAfterAttempt(attempt[f])
           THEN /\ fpc' = [fpc EXCEPT ![f] = "backoff"]
                /\ timer' = [timer EXCEPT ![f] = WaitExponential(attempt[f]) * TicksPerSecond]
                /\ UNCHANGED url
           ELSE /\ fpc' = [fpc EXCEPT ![f] = "raised"]
                /\ url' = [url EXCEPT ![f] = NoHost]
                /\ UNCHANGED timer
    /\ UNCHANGED <<locks, elapsed, attempt, since_dispatch>>

\* tenacity's sleep is over: the next attempt calls get's body again.
Retry(f) ==
    /\ fpc[f] = "backoff"
    /\ timer[f] = 0
    /\ attempt' = [attempt EXCEPT ![f] = attempt[f] + 1]
    /\ outcome' = [outcome EXCEPT ![f] = "none"]
    /\ LimiterAcquire(f, url[f])
    /\ UNCHANGED <<url, failed>>

\* The caller has the response or the exception; the call is over.
FetchFinish(f) ==
    /\ fpc[f] \in {"returned", "raised"}
    /\ fpc' = [fpc EXCEPT ![f] = "idle"]
    /\ attempt' = [attempt EXCEPT ![f] = 0]
    /\ outcome' = [outcome EXCEPT ![f] = "none"]
    /\ failed' = [failed EXCEPT ![f] = 0]
    /\ UNCHANGED <<semaphore, locks, elapsed, url, timer, since_dispatch>>

\* A call that can run without waiting for time or for the network.
Ready(f) ==
    \/ fpc[f] = "acquire" /\ locks[url[f]] = NoTask
    \/ fpc[f] \in {"sleep", "backoff"} /\ timer[f] = 0
    \/ fpc[f] = "sem" /\ SemaphoreFree

\* loop.time() advances by one tick.
Tick ==
    /\ \A f \in Fetchers : ~Ready(f)
    /\ elapsed' = [h \in Hosts |-> Min(elapsed[h] + 1, Interval)]
    /\ since_dispatch' = [h \in Hosts |-> Min(since_dispatch[h] + 1, Interval)]
    /\ timer' = [f \in Fetchers |-> Max(timer[f] - 1, 0)]
    /\ UNCHANGED <<semaphore, locks, fpc, url, attempt, outcome, failed>>

HttpNext ==
    \/ \E f \in Fetchers : FetchCall(f)
    \/ \E f \in Fetchers : LimiterEnter(f)
    \/ \E f \in Fetchers : LimiterWake(f)
    \/ \E f \in Fetchers : SemAcquire(f)
    \/ \E f \in Fetchers : Respond(f)
    \/ \E f \in Fetchers : Retry(f)
    \/ \E f \in Fetchers : FetchFinish(f)
    \/ Tick

\* ==========================================================================
\* Part 3 (specification SpecSearch): the searchers
\*   discovery/searchers/google_search.py  GoogleSearcher.search
\*   discovery/searchers/github_search.py  GitHubSearcher.search
\*   discovery/searchers/arxiv_search.py   ArxivSearcher.search
\*   discovery/agent.py                    DiscoveryAgent._search_one
\*
\* A searcher keeps no state between two calls, so one call at a time is
\* modelled.  It is suspended only in HttpClient.get; what get gives back
\* (a response, or the exception it raised) is an input of the step that
\* follows.
\* ==========================================================================

\* ---- bounds of the model ------------------------------------------------
\* greatest max_results tried
MaxResults == 3
\* greatest number of items in one response (num=10 in the code)
PageSize == 2

Searchers == {"google", "github", "arxiv"}

\* An item of a response: well formed, well formed without a link, or one that
\* makes the construction of its SearchResult raise.
ItemKinds == {"ok", "nolink", "bad"}

\* Response bodies: text that does not parse, or a list of items.
Bodies ==
    {[parses |-> FALSE, items |-> <<>>]}
        \cup {[parses |-> TRUE, items |-> s] : s \in UNION {[1..n -> ItemKinds] : n \in 0..PageSize}}

NoBody == [parses |-> FALSE, items |-> <<>>]

\* What HttpClient.get gives back: an exception (exc), or a response.
HttpResults ==
    {[exc |-> e, status |-> 0, body |-> NoBody] : e \in {"ClientError", "TimeoutError", "Exception"}}
        \cup {[exc |-> "none", status |-> s, body |-> b] : s \in {200, 500}, b \in Bodies}

VARIABLES
    api_key,      \* GoogleSearcher._api_key is set
    cse_id,       \* GoogleSearcher._cse_id is set
    token,        \* GitHubSearcher._token is set
    spc,          \* position of the search call: "idle", "request", "done"
    searcher,     \* the variant _search_one calls
    max_results,  \* search's argument
    results,      \* search's local results
    start,        \* GoogleSearcher.search's local start
    auth_header,  \* the request carries an Authorization header
    found,        \* the list _search_one gave the orchestrator
    raised,       \* _search_one raised to the orchestrator
    \* history variables (not program state)
    requests,     \* calls of HttpClient.get made by this search call
    failure,      \* an exception occurred inside this search call
    kept          \* the results collected when that exception occurred

searchVars ==
    <<api_key, cse_id, token, spc, searcher, max_results, results, start,
      auth_header, found, raised, requests, failure, kept>>

\* Mutant of GoogleConfigured: one of the two credentials is enough.
GoogleConfiguredEither == api_key \/ cse_id

\* GoogleSearcher.search: "if not self._api_key or not self._cse_id" is false
GoogleConfigured == api_key /\ cse_id

\* Mutant of ExceptException: the handler catches validation errors only.
ExceptOnlyValidation(e) == e = "ValidationError"

\* Mutant of ExceptException: the handler catches nothing.
ExceptNothing(e) == FALSE

\* "except Exception": every exception of the model is an Exception
ExceptException(e) == e \in {"ClientError", "TimeoutError", "Exception", "ValueError", "ValidationError"}

\* results[:n]
Truncate(s, n) == SubSeq(s, 1, Min(Len(s), n))

\* The SearchResult a variant builds from the i-th item of a response.
SearchResult(v, st, i, kind) == [source |-> v, start |-> st, index |-> i, link |-> kind = "ok"]

\* The "for item in items" loop from item i on: results with the items up to
\* the first bad one appended, and the exception that one raised.  The arXiv
\* variant leaves out the entries that have no link.
RECURSIVE Collect(_, _, _, _, _)
Collect(v, st, items, i, res) ==
    IF i > Len(items) THEN [results |-> res, exc |-> "none"]
    ELSE IF items[i] = "bad" THEN [results |-> res, exc |-> "ValidationError"]
    ELSE IF v = "arxiv" /\ items[i] = "nolink" THEN Collect(v, st, items, i + 1, res)
    ELSE Collect(v, st, items, i + 1, Append(res, SearchResult(v, st, i, items[i])))

\* No search call has begun.
SearchIdle ==
    /\ spc = "idle"
    /\ searcher = "none"
    /\ max_results = 0
    /\ results = <<>>
    /\ start = 0
    /\ auth_header = FALSE
    /\ found = <<>>
    /\ raised = FALSE
    /\ requests = 0
    /\ failure = FALSE
    /\ kept = <<>>

\* Settings: each credential is configured or not.
SearchInit ==
    /\ api_key \in BOOLEAN
    /\ cse_id \in BOOLEAN
    /\ token \in BOOLEAN
    /\ SearchIdle

\* Settings without credentials (the defaults of config.py).
SearchUnconfigured ==
    /\ api_key = FALSE
    /\ cse_id = FALSE
    /\ token = FALSE
    /\ SearchIdle

\* search returns res: _search_one hands it to the orchestrator.
SearchReturns(res) ==
    /\ spc' = "done"
    /\ found' = res
    /\ raised' = FALSE

\* An exception e leaves search: _search_one's handler turns it into [].
SearchRaises(e) ==
    /\ spc' = "done"
    /\ IF ExceptException(e)
       THEN found' = <<>> /\ raised' = FALSE
       ELSE found' = <<>> /\ raised' = TRUE

\* search awaits HttpClient.get.
SearchRequests ==
    /\ spc' = "request"
    /\ requests' = requests + 1
    /\ UNCHANGED <<found, raised>>

\* An exception e occurs in the try block with res collected: the handler of
\* the variant gives back ret, or the exception leaves search.
SearchExcept(e, res, ret) ==
    /\ failure' = TRUE
    /\ kept' = res
    /\ results' = res
    /\ UNCHANGED <<start, requests>>
    /\ IF ExceptException(e) THEN SearchReturns(ret) ELSE SearchRaises(e)

\* search returns ret without an exception and without another request.
SearchEnds(res, ret) ==
    /\ results' = res
    /\ UNCHANGED <<start, requests, failure, kept>>
    /\ SearchReturns(ret)

\* GoogleSearcher.search, the head of "while len(results) < max_results".
GoogleWhile(res, st, n) ==
    /\ results' = res
    /\ start' = st
    /\ UNCHANGED <<failure, kept>>
    /\ IF Len(res) < n
       THEN SearchRequests
       ELSE requests' = requests /\ SearchReturns(Truncate(res, n))

\* _search_one calls searcher.search(query, max_results).
SearchCall ==
    /\ spc = "idle"
    /\ \E v \in Searchers, n \in 1..MaxResults :
        /\ searcher' = v
        /\ max_results' = n
        /\ IF v = "google"
           THEN /\ auth_header' = FALSE
                /\ IF ~GoogleConfigured
                   THEN /\ start' = 0
                        /\ SearchEnds(<<>>, <<>>)
                   ELSE GoogleWhile(<<>>, 1, n)
           ELSE /\ auth_header' = (v = "github" /\ token)
                /\ results' = <<>>
                /\ start' = 0
                /\ UNCHANGED <<failure, kept>>
                /\ SearchRequests
    /\ UNCHANGED <<api_key, cse_id, token>>

\* GoogleSearcher.search after HttpClient.get: one turn of the loop.
GoogleResponse ==
    /\ spc = "request"
    /\ searcher = "google"
    /\ \E r \in HttpResults :
        IF r.exc /= "none" THEN SearchExcept(r.exc, results, Truncate(results, max_results))
        ELSE IF r.status /= 200 THEN SearchEnds(results, Truncate(results, max_results))
        ELSE IF ~r.body.parses
        THEN SearchExcept("ValueError", results, Truncate(results, max_results))
        ELSE IF r.body.items = <<>> THEN SearchEnds(results, Truncate(results, max_results))
        ELSE LET c == Collect("google", start, r.body.items, 1, results)
             IN  IF c.exc /= "none"
                 THEN SearchExcept(c.exc, c.results, Truncate(c.results, max_results))
                 ELSE GoogleWhile(c.results, start + PageSize, max_results)
    /\ UNCHANGED <<api_key, cse_id, token, searcher, max_results, auth_header>>

\* GitHubSearcher.search after HttpClient.get.
GitHubResponse ==
    /\ spc = "request"
    /\ searcher = "github"
    /\ \E r \in HttpResults :
        IF r.exc /= "none" THEN SearchExcept(r.exc, <<>>, <<>>)
        ELSE IF r.status /= 200 THEN SearchEnds(<<>>, <<>>)
        ELSE IF ~r.body.parses THEN SearchExcept("ValueError", <<>>, <<>>)
        ELSE LET c == Collect("github", 0, Truncate(r.body.items, max_results), 1, <<>>)
             IN  IF c.exc /= "none"
                 THEN SearchExcept(c.exc, c.results, <<>>)
                 ELSE SearchEnds(c.results, c.results)
    /\ UNCHANGED <<api_key, cse_id, token, searcher, max_results, auth_header>>

\* ArxivSearcher.search after HttpClient.get.
ArxivResponse ==
    /\ spc = "request"
    /\ searcher = "arxiv"
    /\ \E r \in HttpResults :
        IF r.exc /= "none" THEN SearchExcept(r.exc, <<>>, <<>>)
        ELSE IF r.status /= 200 THEN SearchEnds(<<>>, <<>>)
        ELSE IF ~r.body.parses THEN SearchExcept("ValueError", <<>>, <<>>)
        ELSE LET c == Collect("arxiv", 0, r.body.items, 1, <<>>)
             IN  IF c.exc /= "none"
                 THEN SearchExcept(c.exc, c.results, <<>>)
                 ELSE SearchEnds(c.results, Truncate(c.results, max_results))
    /\ UNCHANGED <<api_key, cse_id, token, searcher, max_results, auth_header>>

\* The orchestrator has the list; the call is over.
SearchFinish ==
    /\ spc = "done"
    /\ spc' = "idle"
    /\ searcher' = "none"
    /\ max_results' = 0
    /\ results' = <<>>
    /\ start' = 0
    /\ auth_header' = FALSE
    /\ found' = <<>>
    /\ raised' = FALSE
    /\ requests' = 0
    /\ failure' = FALSE
    /\ kept' = <<>>
    /\ UNCHANGED <<api_key, cse_id, token>>

SearchNext ==
    \/ SearchCall
    \/ GoogleResponse
    \/ GitHubResponse
    \/ ArxivResponse
    \/ SearchFinish

\* ==========================================================================
\* Part 4 (specification SpecDiscovery): a discovery run
\*   discovery/agent.py     DiscoveryAgent.run
\*   models/resource.py     _resource_id, Resource.model_post_init
\*
\* run is one coroutine.  It fans the search calls out with asyncio.gather and
\* then works through the results one after the other; the results the search
\* calls gave, how evaluate scores a result and whether the store fails are
\* inputs of its steps.  A url is a sequence of characters.
\* ==========================================================================

\* ---- bounds of the model ------------------------------------------------
\* greatest number of registered searchers
MaxSearchers == 2
\* greatest number of general and of hands-on queries
MaxQueries == 2
\* greatest number of results the search calls of one run give together
MaxRaw == 3

\* The urls that are tried: spellings of "a" and "b" that differ in case,
\* in the blanks around them and in the slashes after them.
Urls ==
    { <<"a">>, <<"A">>, <<"a", "/">>, <<"A", "/", "/">>, <<" ", "a", " ">>,
      <<"b">>, <<"B", "/", " ">> }

\* ---- str methods ----------------------------------------------------------
\* str.lower, on the characters of the model
LowerChar(c) == IF c = "A" THEN "a" ELSE IF c = "B" THEN "b" ELSE c

Lower(s) == [i \in 1..Len(s) |-> LowerChar(s[i])]

\* str.rstrip(c) and str.lstrip(c)
RECURSIVE RStrip(_, _)
RStrip(s, c) ==
    IF s /= <<>> /\ s[Len(s)] = c THEN RStrip(SubSeq(s, 1, Len(s) - 1), c) ELSE s

RECURSIVE LStrip(_, _)
LStrip(s, c) ==
    IF s /= <<>> /\ s[1] = c THEN LStrip(Tail(s), c) ELSE s

\* str.strip(): blanks off both ends
Strip(s) == LStrip(RStrip(s, " "), " ")

\* Mutant of Canonical: the case is kept.
CanonicalCased(u) == RStrip(Strip(u), "/")

\* DiscoveryAgent.run: result.url.strip().rstrip("/").lower()
Canonical(u) == Lower(RStrip(Strip(u), "/"))

\* hashlib.sha256(...).hexdigest()[:16], taken as free of collisions: the
\* digest of a text is named by the text
Sha256(s) == <<"sha256", s>>

\* _resource_id(url)
ResourceId(u) == Sha256(Lower(RStrip(Strip(u), "/")))

\* ---- the search calls of a run ------------------------------------------------
\* the lists of registered searchers that are tried
SearcherLists == UNION {[1..n -> Searchers] : n \in 0..MaxSearchers}

\* Mutant of GithubSearchers: every searcher takes the hands-on queries.
GithubSearchersAll(ss) == ss

\* [s for s in self._searchers if s.name == "github"]
GithubSearchers(ss) == SelectSeq(ss, LAMBDA s : s = "github")

\* [f(x, y) for x in 1..n for y in ss]: the _search_one calls of kind k
RECURSIVE TasksOf(_, _, _, _)
TasksOf(k, q, n, ss) ==
    IF q > n THEN <<>>
    ELSE [i \in 1..Len(ss) |-> [kind |-> k, query |-> q, searcher |-> ss[i]]]
             \o TasksOf(k, q + 1, n, ss)

\* the tasks list of run: general queries to every searcher, then the
\* hands-on queries to the GitHub searchers
BuildTasks(ss, nq, ng) ==
    TasksOf("general", 1, nq, ss) \o TasksOf("github", 1, ng, GithubSearchers(ss))

\* DiscoveryReport
NewReport(total) ==
    [queries_executed |-> total, raw_results |-> 0, new_resources |-> 0,
     updated_resources |-> 0, below_threshold |-> 0, errors |-> <<>>]

VARIABLES
    dpc,             \* position of run: "idle", "gather", "dedup", "evaluate", "done", "raised"
    registered,      \* DiscoveryAgent._searchers: the names of the searchers, in order
    queries,         \* run's local queries: how many there are
    github_queries,  \* run's local github_queries: how many there are
    tasks,           \* run's local tasks
    report,          \* run's local report
    seen_urls,       \* run's local seen_urls
    unique_results,  \* run's local unique_results (the urls of the results)
    pos,             \* index of the result the evaluation loop is at
    known,           \* the ids the catalog holds
    \* history variables (not program state)
    raw_count,       \* results of the search calls the dedup loop has gone through
    evaluated        \* ids of the resources evaluate has built in this run

discoveryVars ==
    <<dpc, registered, queries, github_queries, tasks, report, seen_urls, unique_results,
      pos, known, raw_count, evaluated>>

DiscoveryInit ==
    /\ dpc = "idle"
    /\ registered = <<>>
    /\ queries = 0
    /\ github_queries = 0
    /\ tasks = <<>>
    /\ report = NewReport(0)
    /\ seen_urls = {}
    /\ unique_results = <<>>
    /\ pos = 0
    /\ known = {}
    /\ raw_count = 0
    /\ evaluated = <<>>

\* What the try block of the evaluation loop meets for one result: evaluate
\* raises; the resource scores under the threshold; it is saved; the store
\* fails while it is saved.
EvalOutcomes == {"evaluate_raises", "below", "saved", "save_raises"}

\* run's if / elif / else over upsert's return value
Classify(new, score) ==
    IF new THEN "new"
    ELSE IF score >= MinQualityScore THEN "updated"
    ELSE "below"

\* report with the counter of class c raised by one
Count(rep, c) ==
    IF c = "new" THEN [rep EXCEPT !.new_resources = @ + 1]
    ELSE IF c = "updated" THEN [rep EXCEPT !.updated_resources = @ + 1]
    ELSE [rep EXCEPT !.below_threshold = @ + 1]

\* run up to asyncio.gather: the queries are built, the report is made and
\* the search calls are created.
DiscoveryRun ==
    /\ dpc = "idle"
    /\ \E ss \in SearcherLists, nq \in 0..MaxQueries, ng \in 0..MaxQueries :
        /\ registered' = ss
        /\ queries' = nq
        /\ github_queries' = ng
        /\ tasks' = BuildTasks(ss, nq, ng)
        /\ report' = NewReport(nq * Len(ss) + ng * Len(GithubSearchers(ss)))
    /\ dpc' = "gather"
    /\ UNCHANGED <<seen_urls, unique_results, pos, known, raw_count, evaluated>>

\* asyncio.gather returns: every search call has given its list.  (The
\* locals that are not read again are dropped.)
GatherDone ==
    /\ dpc = "gather"
    /\ dpc' = "dedup"
    /\ registered' = <<>>
    /\ queries' = 0
    /\ github_queries' = 0
    /\ tasks' = <<>>
    /\ UNCHANGED <<report, seen_urls, unique_results, pos, known, raw_count, evaluated>>

\* One turn of "for result in batch": the next result has url u.
DedupResult ==
    /\ dpc = "dedup"
    /\ report.queries_executed > 0
    /\ raw_count < MaxRaw
    /\ \E u \in Urls :
        LET canonical == Canonical(u)
        IN  IF canonical \notin seen_urls
            THEN /\ seen_urls' = seen_urls \cup {canonical}
                 /\ unique_results' = Append(unique_results, u)
            ELSE UNCHANGED <<seen_urls, unique_results>>
    /\ raw_count' = raw_count + 1
    /\ UNCHANGED <<dpc, registered, queries, github_queries, tasks, report, pos, known, evaluated>>

\* The lists are used up: report.raw_results is set and the evaluation begins.
DedupEnd ==
    /\ dpc = "dedup"
    /\ report' = [report EXCEPT !.raw_results = Len(unique_results)]
    /\ pos' = 1
    /\ dpc' = "evaluate"
    /\ UNCHANGED <<registered, queries, github_queries, tasks, seen_urls, unique_results, known,
                   raw_count, evaluated>>

\* An exception e in the try block of the evaluation loop for the result u.
EvaluateExcept(e, u) ==
    IF ExceptException(e)
    THEN /\ report' = [report EXCEPT !.errors = Append(@, u)]
         /\ pos' = pos + 1
         /\ UNCHANGED dpc
    ELSE /\ dpc' = "raised"
         /\ UNCHANGED <<report, pos>>

\* One turn of "for result in unique_results": evaluate, upsert, count.
EvaluateOne ==
    /\ dpc = "evaluate"
    /\ pos <= Len(unique_results)
    /\ LET u == unique_results[pos]
           id == ResourceId(u)
       IN \E o \in EvalOutcomes :
            IF o = "evaluate_raises"
            THEN /\ EvaluateExcept("ValidationError", u)
                 /\ UNCHANGED <<known, evaluated>>
            ELSE /\ evaluated' = Append(evaluated, id)
                 /\ IF o = "below"
                    THEN /\ report' = Count(report, Classify(FALSE, 0))
                         /\ pos' = pos + 1
                         /\ UNCHANGED <<dpc, known>>
                    ELSE /\ known' = known \cup {id}
                         /\ IF o = "save_raises"
                            THEN EvaluateExcept("Exception", u)
                            ELSE /\ report' = Count(report, Classify(id \notin known, MinQualityScore))
                                 /\ pos' = pos + 1
                                 /\ UNCHANGED dpc
    /\ UNCHANGED <<registered, queries, github_queries, tasks, seen_urls, unique_results, raw_count>>

\* The loop is over: run returns the report.
DiscoveryReturn ==
    /\ dpc = "evaluate"
    /\ pos > Len(unique_results)
    /\ dpc' = "done"
    /\ UNCHANGED <<registered, queries, github_queries, tasks, report, seen_urls, unique_results,
                   pos, known, raw_count, evaluated>>

\* The caller has the report (or the exception); the catalog stays as it is.
DiscoveryFinish ==
    /\ dpc \in {"done", "raised"}
    /\ dpc' = "idle"
    /\ report' = NewReport(0)
    /\ seen_urls' = {}
    /\ unique_results' = <<>>
    /\ pos' = 0
    /\ raw_count' = 0
    /\ evaluated' = <<>>
    /\ UNCHANGED <<registered, queries, github_queries, tasks, known>>

DiscoveryNext ==
    \/ DiscoveryRun
    \/ GatherDone
    \/ DedupResult
    \/ DedupEnd
    \/ EvaluateOne
    \/ DiscoveryReturn
    \/ DiscoveryFinish

\* ---------------------------------------------------------------------------
\* Part 5: an ingestion run (ingestion/pipeline.py) over the resource catalog
\* ---------------------------------------------------------------------------

\* The resources the catalog of an ingestion run can hold.
NumResources == 2

ResourceIds == 1..NumResources

\* The tags a categorisation can give; the domains are "nlp" and "mlops",
\* two values of SkillDomain.
TagNames == {"rag"}

\* Word counts of scraped pages: an empty page and a page of 600 words.
WordCounts == {0, 600}

\* Optional values: None is the empty sequence, a value v is <<v>>.
None == <<>>

Some(v) == <<v>>

\* A catalogued resource as far as ingestion reads or writes it.
Entry(s, a, d, t, h) ==
    [quality_score |-> s, is_active |-> a, domains |-> d, tags |-> t, estimated_hours |-> h]

\* The entries a catalog holds before a run: active, without tags, with or
\* without the evaluator's domain and an earlier run's estimate of the hours;
\* and an entry for which the evaluator found two domains.
DiscoveredEntries ==
    {Entry(s, TRUE, d, {}, h) : s \in MinScores, d \in {<<>>, <<"nlp">>}, h \in {None, Some(5)}}
        \cup {Entry(MinQualityScore, TRUE, <<"mlops", "nlp">>, {}, None)}

\* The catalogs a run can start from: the first resource is any discovered
\* entry or absent, the second is absent or an entry of either score without
\* domains and hours, every further one is absent or that entry of top score.
Catalogs ==
    {c \in UNION {[S -> DiscoveredEntries] : S \in SUBSET ResourceIds} :
        \A i \in DOMAIN c :
            /\ i > 1 => c[i].domains = <<>> /\ c[i].estimated_hours = None
            /\ i > 2 => c[i].quality_score = MinQualityScore}

\* run's argument resource_ids: None, or a list of ids (its set of ids).
NoIds == [given |-> FALSE, ids |-> {}]

IdList(S) == [given |-> TRUE, ids |-> S]

ResourceIdArgs == {NoIds} \cup {IdList(S) : S \in SUBSET ResourceIds}

\* Python's truth value of resource_ids: None and the empty list are false.
Truthy(rids) == rids.given /\ rids.ids # {}

\* sorted(resources, key=quality_score, reverse=True): stable, so resources
\* of equal score keep the order of the cache (the order of their ids).
RECURSIVE SortedByScore(_, _)
SortedByScore(c, S) ==
    IF S = {} THEN <<>>
    ELSE LET top == CHOOSE i \in S : \A j \in S :
                        \/ c[i].quality_score > c[j].quality_score
                        \/ c[i].quality_score = c[j].quality_score /\ i <= j
         IN  <<top>> \o SortedByScore(c, S \ {top})

\* ResourceCatalog.get_all(min_score).
GetAll(c, ms) ==
    SortedByScore(c, IF ms > 0 THEN {i \in DOMAIN c : c[i].quality_score >= ms}
                               ELSE DOMAIN c)

\* run's selection of the resources to ingest.
SelectResources(c, rids, ms) ==
    IF Truthy(rids) THEN SelectSeq(GetAll(c, ms), LAMBDA i : i \in rids.ids)
                    ELSE GetAll(c, ms)

NewIngestionReport(total) ==
    [total_resources |-> total, scraped |-> 0, failed |-> 0, duplicate_groups |-> 0,
     duplicates_flagged |-> 0, recategorized |-> 0, errors |-> 0]

\* What a scrape task gives gather: nothing yet, None, an exception, a content.
Pending == [kind |-> "pending", word_count |-> 0]

ScrapedNone == [kind |-> "None", word_count |-> 0]

ScrapeRaised == [kind |-> "Exception", word_count |-> 0]

ScrapedContent(wc) == [kind |-> "content", word_count |-> wc]

\* gather without return_exceptions (mutant).
ReturnExceptionsOff == FALSE

\* asyncio.gather(*tasks, return_exceptions=True)
ReturnExceptions == TRUE

\* The results loop: isinstance(res, Exception), or res is None.
IsFailure(res) == res.kind \in {"Exception", "None"}

\* How many of the results the loop counts as failed, and how many of them
\* leave a message in report.errors.
CountFailed(res) == Cardinality({k \in DOMAIN res : IsFailure(res[k])})

CountErrors(res) == Cardinality({k \in DOMAIN res : res[k] = ScrapeRaised})

\* The contents list: the results that are neither exceptions nor None, in
\* order, each with the id of its resource.
RECURSIVE ContentsOf(_, _, _)
ContentsOf(res, ids, k) ==
    IF k = 0 THEN <<>>
    ELSE ContentsOf(res, ids, k - 1) \o
         (IF IsFailure(res[k]) THEN <<>>
          ELSE <<[resource_id |-> ids[k], word_count |-> res[k].word_count]>>)

SeqRange(s) == {s[k] : k \in 1..Len(s)}

\* The results come in the order in which the tasks ended, as from
\* asyncio.as_completed (mutant).
GatherOrderCompleted(n, ended) == ended

\* asyncio.gather: the results are in the order of the awaitables, whatever
\* the order in which they ended.  The list says which task each place of
\* the results is of.
GatherOrder(n, ended) == [k \in 1..n |-> k]

\* The results are taken up as soon as one task has ended, as with
\* asyncio.wait(return_when=FIRST_COMPLETED) (mutant).
AllEndedFirst(res) == \E k \in DOMAIN res : res[k] # Pending

\* await asyncio.gather(...): run goes on when every task has ended.
AllEnded(res) == \A k \in DOMAIN res : res[k] # Pending

\* The contents list of the results handed over in the order ord.
GatheredContents(res, ids, ord) ==
    ContentsOf([i \in 1..Len(ord) |-> res[ord[i]]], [i \in 1..Len(ord) |-> ids[ord[i]]],
               Len(ord))

\* What find_duplicates can give for the contents of the ids C: groups that
\* share no member, each with a canonical id and at least one duplicate id.
\* A grouping is the map from each id to the canonical id of its group.
Groupings(C) == {g \in [C -> C] : \A x \in C : g[g[x]] = g[x]}

DuplicateIds(g) == {x \in DOMAIN g : g[x] # x}

CanonicalIds(g) == {g[x] : x \in DuplicateIds(g)}

CategorizedResult(p, sds, ts) == [primary_domain |-> p, secondary_domains |-> sds, tags |-> ts]

\* What the categorizer can give for a content: nothing, secondary domains
\* only, or a primary domain with secondary domains and tags of its subtopics.
CatResults ==
    {CategorizedResult(None, <<>>, {}),
     CategorizedResult(None, <<"nlp">>, {}),
     CategorizedResult(Some("nlp"), <<"mlops">>, TagNames),
     CategorizedResult(Some("mlops"), <<"nlp">>, {})}

InSeq(x, s) == \E k \in 1..Len(s) : s[k] = x

RECURSIVE AppendMissing(_, _)
AppendMissing(ds, sds) ==
    IF sds = <<>> THEN ds
    ELSE AppendMissing(IF InSeq(Head(sds), ds) THEN ds ELSE Append(ds, Head(sds)), Tail(sds))

\* The domains after enrichment: the primary domain goes first when it is
\* new, the secondary domains are appended when new; nothing without a primary.
EnrichDomains(ds, cat) ==
    IF cat.primary_domain = None THEN ds
    ELSE AppendMissing(IF InSeq(cat.primary_domain[1], ds) THEN ds
                       ELSE <<cat.primary_domain[1]>> \o ds,
                       cat.secondary_domains)

EnrichTags(ts, cat) == IF cat.tags # {} THEN ts \cup cat.tags ELSE ts

\* round(word_count / (200 * 60) * 2, 1), in tenths of an hour.
EstimateHours(wc) == (wc + 300) \div 600

EnrichHours(h, wc) == IF wc > 0 /\ h = None THEN Some(EstimateHours(wc)) ELSE h

\* A flagged duplicate is categorised like any content (mutant).
FlaggedNever(id, flagged) == FALSE

\* content.resource_id in flagged_ids
Flagged(id, flagged) == id \in flagged

VARIABLES
    ipc,             \* position of run: "idle", "scrape", "stage3", "done", "raised"
    icache,          \* ResourceCatalog._cache: the Resource objects run works on
    irepo,           \* what the repository holds of each resource
    resource_ids,    \* run's argument resource_ids
    ingest_min,      \* run's argument min_score
    all_resources,   \* run's local all_resources: the ids, in order
    scrape_results,  \* what each scrape task has given so far
    contents,        \* run's local contents
    flagged_ids,     \* run's local flagged_ids
    ireport,         \* run's local report
    ipos,            \* index of the content the stage 3 loop is at
    \* history variables (not program state)
    before,          \* the catalog as it was when the run began
    last_cat,        \* what the categorizer gave for the content stage 3 took up last
    ended,           \* while gather waits: the scrape tasks that have ended, in that order
    out_of_order     \* the tasks of the latest gather ended in another order than listed

ingestionVars ==
    <<ipc, icache, irepo, resource_ids, ingest_min, all_resources, scrape_results,
      contents, flagged_ids, ireport, ipos, before, last_cat, ended, out_of_order>>

IngestionIdle ==
    /\ ipc = "idle"
    /\ resource_ids = NoIds
    /\ ingest_min = 0
    /\ all_resources = <<>>
    /\ scrape_results = <<>>
    /\ contents = <<>>
    /\ flagged_ids = {}
    /\ ireport = NewIngestionReport(0)
    /\ ipos = 0
    /\ last_cat = None
    /\ ended = <<>>
    /\ out_of_order = FALSE

\* No catalog: the state of this part while another part is explored.
IngestionInit ==
    /\ IngestionIdle
    /\ icache = EmptyDict
    /\ irepo = EmptyDict
    /\ before = EmptyDict

\* A loaded catalog, its repository in step with it, and no run yet.
IngestionStart ==
    /\ IngestionIdle
    /\ icache \in Catalogs
    /\ irepo = icache
    /\ before = icache

\* run(resource_ids, min_score) up to the gather: the selection, the report
\* and one scrape task per selected resource.
IngestionRun ==
    /\ ipc = "idle"
    /\ \E rids \in ResourceIdArgs, ms \in MinScores :
        /\ resource_ids' = rids
        /\ ingest_min' = ms
        /\ all_resources' = SelectResources(icache, rids, ms)
    /\ ireport' = NewIngestionReport(Len(all_resources'))
    /\ scrape_results' = [k \in 1..Len(all_resources') |-> Pending]
    /\ ipc' = "scrape"
    /\ before' = icache
    /\ ended' = <<>>
    /\ out_of_order' = FALSE
    /\ UNCHANGED <<icache, irepo, contents, flagged_ids, ipos, last_cat>>

\* A scrape task ends; with return_exceptions its exception is a result, and
\* without it the first exception leaves gather and run.
ScrapeEnds(k, res) ==
    /\ ipc = "scrape"
    /\ k \in DOMAIN scrape_results
    /\ scrape_results[k] = Pending
    /\ scrape_results' = [scrape_results EXCEPT ![k] = res]
    /\ ended' = Append(ended, k)
    /\ ipc' = IF res = ScrapeRaised /\ ~ReturnExceptions THEN "raised" ELSE "scrape"
    /\ UNCHANGED <<icache, irepo, resource_ids, ingest_min, all_resources, contents,
                   flagged_ids, ireport, ipos, before, last_cat, out_of_order>>

\* _scrape_one: _pick_scraper finds no scraper for the resource.
ScrapeNoScraper(k) == ScrapeEnds(k, ScrapedNone)

\* _scrape_one: the scraper returns None on failure.
ScrapeReturnsNone(k) == ScrapeEnds(k, ScrapedNone)

\* _scrape_one: can_handle or scrape raises.
ScrapeRaises(k) == ScrapeEnds(k, ScrapeRaised)

\* _scrape_one: the scraper returns the content of the resource.
ScrapeReturnsContent(k) == \E wc \in WordCounts : ScrapeEnds(k, ScrapedContent(wc))

\* gather returns when every task has ended; the results loop and stage 2
\* follow without a suspension.
GatherReturns ==
    /\ ipc = "scrape"
    /\ AllEnded(scrape_results)
    /\ LET n == Len(scrape_results)
           cs == GatheredContents(scrape_results, all_resources, GatherOrder(n, ended))
       IN  /\ contents' = cs
           /\ \E g \in Groupings({c.resource_id : c \in SeqRange(cs)}) :
                /\ flagged_ids' = DuplicateIds(g)
                /\ ireport' = [ireport EXCEPT
                                 !.failed = CountFailed(scrape_results),
                                 !.scraped = Len(cs),
                                 !.errors = CountErrors(scrape_results),
                                 !.duplicate_groups = Cardinality(CanonicalIds(g)),
                                 !.duplicates_flagged = Cardinality(DuplicateIds(g))]
    /\ ipc' = "stage3"
    /\ ipos' = 1
    /\ out_of_order' = (ended # [k \in 1..Len(ended) |-> k])
    /\ ended' = <<>>
    /\ UNCHANGED <<icache, irepo, resource_ids, ingest_min, all_resources, scrape_results,
                   before, last_cat>>

\* ResourceCatalog.upsert(resource) of an object of the cache, min_score 0:
\* the merge is with itself, the cache keeps the object, the repository saves
\* it; save can raise, after the cache has the change.
CatalogUpsert(id, r, ok) ==
    LET merged == [r EXCEPT !.quality_score = MergeScore(r.quality_score, icache[id].quality_score)]
    IN  /\ icache' = DictPut(icache, id, merged)
        /\ irepo' = IF ok THEN DictPut(irepo, id, merged) ELSE irepo
        /\ ipc' = IF ok THEN "stage3" ELSE "raised"

\* Stage 3, a flagged content: the resource becomes inactive and is upserted.
IngestFlagged(ok) ==
    /\ ipc = "stage3"
    /\ ipos <= Len(contents)
    /\ LET id == contents[ipos].resource_id
       IN  /\ Flagged(id, flagged_ids)
           /\ CatalogUpsert(id, [icache[id] EXCEPT !.is_active = FALSE], ok)
    /\ ipos' = ipos + 1
    /\ last_cat' = None
    /\ UNCHANGED <<resource_ids, ingest_min, all_resources, scrape_results, contents,
                   flagged_ids, ireport, before, ended, out_of_order>>

\* Stage 3, any other content: categorise, enrich, upsert, count.
IngestCategorize(ok) ==
    /\ ipc = "stage3"
    /\ ipos <= Len(contents)
    /\ LET id == contents[ipos].resource_id
           r == icache[id]
       IN  /\ ~Flagged(id, flagged_ids)
           /\ \E cat \in CatResults :
                /\ last_cat' = Some(cat)
                /\ CatalogUpsert(id,
                     [r EXCEPT !.domains = EnrichDomains(r.domains, cat),
                               !.tags = EnrichTags(r.tags, cat),
                               !.estimated_hours =
                                   EnrichHours(r.estimated_hours, contents[ipos].word_count)],
                     ok)
    /\ ireport' = IF ok THEN [ireport EXCEPT !.recategorized = @ + 1] ELSE ireport
    /\ ipos' = ipos + 1
    /\ UNCHANGED <<resource_ids, ingest_min, all_resources, scrape_results, contents,
                   flagged_ids, before, ended, out_of_order>>

\* run returns its report.
IngestionReturn ==
    /\ ipc = "stage3"
    /\ ipos > Len(contents)
    /\ ipc' = "done"
    /\ UNCHANGED <<icache, irepo, resource_ids, ingest_min, all_resources, scrape_results,
                   contents, flagged_ids, ireport, ipos, before, last_cat, ended,
                   out_of_order>>

IngestionNext ==
    \/ IngestionRun
    \/ \E k \in ResourceIds : ScrapeNoScraper(k)
    \/ \E k \in ResourceIds : ScrapeReturnsNone(k)
    \/ \E k \in ResourceIds : ScrapeRaises(k)
    \/ \E k \in ResourceIds : ScrapeReturnsContent(k)
    \/ GatherReturns
    \/ \E ok \in BOOLEAN : IngestFlagged(ok)
    \/ \E ok \in BOOLEAN : IngestCategorize(ok)
    \/ IngestionReturn

\* ---------------------------------------------------------------------------
\* Part 6: ContentDeduplicator.find_duplicates (ingestion/deduplicator.py)
\* ---------------------------------------------------------------------------

\* The contents one call of find_duplicates is given, at most.
NumDocs == 3

\* ContentDeduplicator's threshold, in hundredths.
ThresholdPercent == 85

\* The characters of text_content that enter the trigrams.
TextWindow == 5000

\* The heading counts of the contents of the model.
HeadingCounts == {0, 1}

\* The characters normalise keeps, as far as the texts of the model have them.
KeptChars == {"a", "b", "c", "d", "e", "f", "g", "h", "i", "j", "k", " "}

\* The texts of the contents of the model: a page, the page with one and with
\* two more characters, the page in other case, spacing and punctuation, and
\* an empty page.
Texts ==
    {<<"a", "b", "c", "d", "e", "f", "g", "h", "i">>,
     <<"a", "b", "c", "d", "e", "f", "g", "h", "i", "j">>,
     <<"a", "b", "c", "d", "e", "f", "g", "h", "i", "j", "k">>,
     <<"A", "b", "c", " ", " ", "d", "e", "f", "g", "h", "i", "!">>,
     <<>>}

\* re.sub(r"[^a-z0-9\s]", " ", text)
BlankOthers(s) == [i \in 1..Len(s) |-> IF s[i] \in KeptChars THEN s[i] ELSE " "]

\* re.sub(r"\s+", " ", text)
RECURSIVE CollapseSpaces(_)
CollapseSpaces(s) ==
    IF Len(s) < 2 THEN s
    ELSE IF s[1] = " " /\ s[2] = " " THEN CollapseSpaces(Tail(s))
    ELSE <<s[1]>> \o CollapseSpaces(Tail(s))

\* utils/text_processing.normalise
Normalise(t) == Strip(CollapseSpaces(BlankOthers(Lower(t))))

\* utils/text_processing.trigrams
Trigrams(t) ==
    LET n == Normalise(t)
    IN  IF Len(n) >= 3 THEN {SubSeq(n, i, i + 2) : i \in 1..(Len(n) - 2)} ELSE {n}

\* utils/text_processing.jaccard, as the fraction <<numerator, denominator>>.
Jaccard(a, b) ==
    IF a = {} /\ b = {} THEN <<1, 1>>
    ELSE IF a \cup b = {} THEN <<0, 1>>
    ELSE <<Cardinality(a \cap b), Cardinality(a \cup b)>>

\* The similarity of two contents as find_duplicates computes it.
Similarity(c1, c2) ==
    Jaccard(Trigrams(Truncate(c1.text_content, TextWindow)),
            Trigrams(Truncate(c2.text_content, TextWindow)))

\* Every pair of contents counts as similar (mutant).
AtLeastAlways(sim, percent) == TRUE

\* sim >= self._threshold
AtLeast(sim, percent) == sim[1] * 100 >= percent * sim[2]

\* find(x): the root of x; its path halving changes parent, not the roots.
RECURSIVE FindRoot(_, _)
FindRoot(p, x) == IF p[x] = x THEN x ELSE FindRoot(p, p[x])

RECURSIVE Halve(_, _)
Halve(p, x) ==
    IF p[x] = x THEN p
    ELSE LET q == [p EXCEPT ![x] = p[p[x]]] IN Halve(q, q[x])

\* union keeps the first root whatever the heading counts (mutant).
KeepFirstAlways(ha, hb) == TRUE

\* heading_counts.get(ra, 0) >= heading_counts.get(rb, 0)
KeepFirst(ha, hb) == ha >= hb

\* union(a, b): the parent map after it.
Union(p, hc, a, b) ==
    LET p1 == Halve(p, a)
        ra == FindRoot(p, a)
        p2 == Halve(p1, b)
        rb == FindRoot(p1, b)
    IN  IF ra = rb THEN p2
        ELSE IF KeepFirst(hc[ra], hc[rb]) THEN [p2 EXCEPT ![rb] = ra]
        ELSE [p2 EXCEPT ![ra] = rb]

\* A content as far as find_duplicates reads it; headings is len(c.headings).
Content(id, t, h) == [resource_id |-> id, text_content |-> t, headings |-> h]

\* The resource ids of n contents, in the order of the list or against it.
IdOrders(n) == {[k \in 1..n |-> k], [k \in 1..n |-> n + 1 - k]}

\* The lists of n contents find_duplicates can be given: distinct resource ids.
ContentLists(n) ==
    {[k \in 1..n |-> Content(ids[k], ts[k], hs[k])] :
        ids \in IdOrders(n), ts \in [1..n -> Texts], hs \in [1..n -> HeadingCounts]}

\* ids = list(tri_map.keys())
IdsOf(cs) == [k \in 1..Len(cs) |-> cs[k].resource_id]

\* heading_counts
HeadingCountsOf(cs) ==
    [id \in {cs[k].resource_id : k \in 1..Len(cs)} |->
        cs[CHOOSE k \in 1..Len(cs) : cs[k].resource_id = id].headings]

\* The members of the group of root r, in the order of ids.
Members(p, ids, r) == SelectSeq(ids, LAMBDA id : FindRoot(p, id) = r)

\* The keys of groups_map in the order of their insertion: the roots, each at
\* the place of the first of ids that has it.
RECURSIVE RootsUpTo(_, _, _)
RootsUpTo(p, ids, k) ==
    IF k = 0 THEN <<>>
    ELSE LET rs == RootsUpTo(p, ids, k - 1)
             r == FindRoot(p, ids[k])
         IN  IF \E m \in 1..Len(rs) : rs[m] = r THEN rs ELSE Append(rs, r)

\* The similarities that enter a group's average: for each duplicate d, the
\* entry of pair_sim under (min(canonical, d), max(canonical, d)), if any.
RECURSIVE FoundSims(_, _, _)
FoundSims(ps, canonical, dupes) ==
    IF dupes = <<>> THEN <<>>
    ELSE LET d == Head(dupes)
             key == <<Min(canonical, d), Max(canonical, d)>>
         IN  (IF key \in DOMAIN ps THEN <<ps[key]>> ELSE <<>>)
             \o FoundSims(ps, canonical, Tail(dupes))

\* The DuplicateGroup of a root; similarity is given by the similarities it
\* is the average of (none: 0.0).
DuplicateGroup(p, ps, ids, canonical) ==
    LET dupes == SelectSeq(Members(p, ids, canonical), LAMBDA m : m # canonical)
    IN  [canonical_id |-> canonical, duplicate_ids |-> dupes,
         similarity |-> FoundSims(ps, canonical, dupes)]

\* The results list: one group for each root with two members or more.
RECURSIVE BuildGroups(_, _, _, _)
BuildGroups(p, ps, ids, roots) ==
    IF roots = <<>> THEN <<>>
    ELSE (IF Len(Members(p, ids, Head(roots))) < 2 THEN <<>>
          ELSE <<DuplicateGroup(p, ps, ids, Head(roots))>>)
         \o BuildGroups(p, ps, ids, Tail(roots))

VARIABLES
    ddpc,         \* position of find_duplicates: "idle", "pairs", "build", "done"
    dcontents,    \* find_duplicates' argument contents
    parent,       \* the union-find map
    di,           \* the loop variable i
    dj,           \* the loop variable j
    pair_sim,     \* the pairs of pair_sim, each with its similarity
    dup_groups    \* what find_duplicates returns

dedupVars == <<ddpc, dcontents, parent, di, dj, pair_sim, dup_groups>>

DedupInit ==
    /\ ddpc = "idle"
    /\ dcontents = <<>>
    /\ parent = EmptyDict
    /\ di = 0
    /\ dj = 0
    /\ pair_sim = EmptyDict
    /\ dup_groups = <<>>

\* find_duplicates(contents) up to the pair loop; fewer than two contents
\* give the empty list at once.
FindDuplicates ==
    /\ ddpc = "idle"
    /\ \E n \in 0..NumDocs : \E cs \in ContentLists(n) :
        /\ dcontents' = cs
        /\ ddpc' = IF Len(cs) < 2 THEN "done" ELSE "pairs"
        /\ parent' = IF Len(cs) < 2 THEN EmptyDict
                     ELSE [id \in {cs[k].resource_id : k \in 1..Len(cs)} |-> id]
        /\ di' = IF Len(cs) < 2 THEN 0 ELSE 1
        /\ dj' = IF Len(cs) < 2 THEN 0 ELSE 2
    /\ UNCHANGED <<pair_sim, dup_groups>>

\* One turn of the inner loop: the similarity of the pair, and for a pair at
\* or above the threshold the union and the entry of pair_sim.
ComparePair ==
    /\ ddpc = "pairs"
    /\ LET n == Len(dcontents)
           a == dcontents[di].resource_id
           b == dcontents[dj].resource_id
       IN  /\ \E sim \in {Similarity(dcontents[di], dcontents[dj])} :
                IF AtLeast(sim, ThresholdPercent)
                THEN /\ parent' = Union(parent, HeadingCountsOf(dcontents), a, b)
                     /\ pair_sim' = DictPut(pair_sim, <<a, b>>, sim)
                ELSE UNCHANGED <<parent, pair_sim>>
           /\ IF dj < n THEN di' = di /\ dj' = dj + 1 /\ ddpc' = "pairs"
              ELSE IF di + 1 < n THEN di' = di + 1 /\ dj' = di + 2 /\ ddpc' = "pairs"
              ELSE di' = di /\ dj' = dj /\ ddpc' = "build"
    /\ UNCHANGED <<dcontents, dup_groups>>

\* The groups are built and returned.
ReturnGroups ==
    /\ ddpc = "build"
    /\ LET ids == IdsOf(dcontents)
       IN  dup_groups' = BuildGroups(parent, pair_sim, ids, RootsUpTo(parent, ids, Len(ids)))
    /\ ddpc' = "done"
    /\ UNCHANGED <<dcontents, parent, di, dj, pair_sim>>

DedupNext ==
    \/ FindDuplicates
    \/ ComparePair
    \/ ReturnGroups

\* ---------------------------------------------------------------------------
\* Part 7: LearningPathBuilder.build (curriculum/learning_path.py)
\* ---------------------------------------------------------------------------

\* The resources of one domain the builder is given, at most.
NumPathResources == 3

\* settings.max_resources_per_module and settings.max_hours_beginner_path
\* (hours are whole numbers in the model).
MaxResourcesPerModule == 1

MaxHoursBeginnerPath == 4

\* settings.provider_diversity_cap, in hundredths.
ProviderDiversityCap == 40

\* The hours of a resource without an estimate (r.estimated_hours or 2.0).
DefaultHours == 2

\* A path has up to three modules.
ModulesPerPath == 3

Difficulties == <<"beginner", "intermediate", "advanced">>

\* build's argument domain: a domain without a dependency and one with two.
PathDomains == {"ml_basics", "generative_ai"}

\* DEPENDENCY_MAP.get(domain, []), for the domains of the model.
DependencyMap(domain) ==
    IF domain = "nlp" THEN <<"deep_learning">>
    ELSE IF domain = "generative_ai" THEN <<"deep_learning", "nlp">>
    ELSE <<>>

\* A resource as far as the builder reads it.
PathResource(i, p, d, s, h) ==
    [id |-> i, provider |-> p, difficulty |-> d, quality_score |-> s, estimated_hours |-> h]

\* What a resource of the input can be, its id apart: with or without a
\* provider, beginner or intermediate, of either score, without an estimate or
\* with an estimate of three hours, and a beginner resource estimated at zero.
PathResourceKinds ==
    {PathResource(0, p, d, s, h) :
        p \in {"", "acme"}, d \in {"beginner", "intermediate"}, s \in MinScores,
        h \in {None, Some(3)}}
    \cup {PathResource(0, "acme", "beginner", MinQualityScore, Some(0))}

\* The lists of n resources the builder can be given; the id of a resource
\* is its place in the list.
PathInputs(n) ==
    {[i \in 1..n |-> [kinds[i] EXCEPT !.id = i]] : kinds \in [1..n -> PathResourceKinds]}

\* sorted(resources, key=quality_score, reverse=True): stable.
RECURSIVE InsertByQuality(_, _)
InsertByQuality(sorted, r) ==
    IF sorted = <<>> THEN <<r>>
    ELSE IF Head(sorted).quality_score >= r.quality_score
         THEN <<Head(sorted)>> \o InsertByQuality(Tail(sorted), r)
         ELSE <<r>> \o sorted

RECURSIVE SortedByQuality(_)
SortedByQuality(rs) ==
    IF rs = <<>> THEN <<>>
    ELSE InsertByQuality(SortedByQuality(SubSeq(rs, 1, Len(rs) - 1)), rs[Len(rs)])

\* r.provider or "unknown"
ProviderOf(r) == IF r.provider = "" THEN "unknown" ELSE r.provider

\* max(1, int(total * self._diversity_cap))
MaxPerProvider(total) == Max(1, (total * ProviderDiversityCap) \div 100)

\* The loop of _apply_diversity over the first k resources: what is in result
\* and what is deferred.
RECURSIVE DiversitySplit(_, _, _)
DiversitySplit(rs, k, cap) ==
    IF k = 0 THEN [result |-> <<>>, deferred |-> <<>>]
    ELSE LET prev == DiversitySplit(rs, k - 1, cap)
             count == Len(SelectSeq(prev.result,
                                    LAMBDA x : ProviderOf(x) = ProviderOf(rs[k])))
         IN  IF count < cap THEN [prev EXCEPT !.result = Append(@, rs[k])]
             ELSE [prev EXCEPT !.deferred = Append(@, rs[k])]

\* The deferred resources are left out (mutant).
ApplyDiversityDropping(rs) ==
    IF Len(rs) = 0 THEN rs
    ELSE DiversitySplit(rs, Len(rs), MaxPerProvider(Len(rs))).result

\* _apply_diversity
ApplyDiversity(rs) ==
    IF Len(rs) = 0 THEN rs
    ELSE LET split == DiversitySplit(rs, Len(rs), MaxPerProvider(Len(rs)))
         IN  split.result \o split.deferred

\* r.estimated_hours or 2.0: None and 0.0 give the default.
HoursOf(r) ==
    IF r.estimated_hours = None \/ r.estimated_hours[1] = 0 THEN DefaultHours
    ELSE r.estimated_hours[1]

RECURSIVE SumHours(_)
SumHours(rs) == IF rs = <<>> THEN 0 ELSE HoursOf(Head(rs)) + SumHours(Tail(rs))

\* The module of a chunk of resources.
ModuleUnit(chunk, order) ==
    [resource_ids |-> [k \in 1..Len(chunk) |-> chunk[k].id],
     objectives |-> Len(chunk),
     estimated_hours |-> SumHours(chunk),
     order |-> order]

\* The modules of the selected resources, max_per_module resources each.
RECURSIVE SplitModules(_, _)
SplitModules(selected, order) ==
    IF selected = <<>> THEN <<>>
    ELSE <<ModuleUnit(Truncate(selected, MaxResourcesPerModule), order)>>
         \o SplitModules(SubSeq(selected, MaxResourcesPerModule + 1, Len(selected)), order + 1)

RECURSIVE TotalHours(_)
TotalHours(ms) == IF ms = <<>> THEN 0 ELSE Head(ms).estimated_hours + TotalHours(Tail(ms))

\* The trimming loop keeps every module (mutant).
FitsCapAlways(running, hours) == TRUE

\* running + m.estimated_hours <= self._max_hours_beginner
FitsCap(running, hours) == running + hours <= MaxHoursBeginnerPath

\* The trimming loop: modules are kept from the front until one does not fit.
RECURSIVE Trimmed(_, _)
Trimmed(ms, running) ==
    IF ms = <<>> THEN <<>>
    ELSE IF FitsCap(running, Head(ms).estimated_hours)
         THEN <<Head(ms)>> \o Trimmed(Tail(ms), running + Head(ms).estimated_hours)
         ELSE <<>>

\* The modules of a path before the hour cap.
ModulesOf(rs) ==
    SplitModules(Truncate(ApplyDiversity(SortedByQuality(rs)),
                          MaxResourcesPerModule * ModulesPerPath), 1)

\* The prerequisites of the dependency map alone (mutant).
PrerequisitesOfMap(domain, difficulty) ==
    [k \in 1..Len(DependencyMap(domain)) |-> <<"Complete the", DependencyMap(domain)[k], "path">>]

\* prereqs: one for each dependency of the domain, and for an intermediate or
\* advanced path the path of the difficulty below.
Prerequisites(domain, difficulty) ==
    [k \in 1..Len(DependencyMap(domain)) |-> <<"Complete the", DependencyMap(domain)[k], "path">>]
    \o (IF difficulty = "intermediate" THEN <<<<"Complete the Beginner path for", domain>>>>
        ELSE IF difficulty = "advanced" THEN <<<<"Complete the Intermediate path for", domain>>>>
        ELSE <<>>)

\* round(total_hours, 1), from hundredths of an hour to tenths of an hour:
\* to the nearest tenth, a tie to the even one.
RoundToTenth(hundredths) ==
    LET q == hundredths \div 10
        r == hundredths % 10
    IN  IF r < 5 THEN q
        ELSE IF r > 5 THEN q + 1
        ELSE IF q % 2 = 0 THEN q ELSE q + 1

\* The modules of a path after the hour cap.
CappedModules(difficulty, ms) ==
    IF difficulty = "beginner" /\ TotalHours(ms) > MaxHoursBeginnerPath
    THEN Trimmed(ms, 0) ELSE ms

\* _build_path; total_estimated_hours is in tenths of an hour.
BuildPath(domain, difficulty, rs) ==
    LET ms == CappedModules(difficulty, ModulesOf(rs))
    IN  [difficulty |-> difficulty, domains |-> <<domain>>, modules |-> ms,
         total_estimated_hours |-> RoundToTenth(100 * TotalHours(ms)),
         prerequisites |-> Prerequisites(domain, difficulty)]

\* BestPracticesEngine.validate, rules 2, 5 and 7: the rules that have an
\* issue with the path, rule 7 once for each module without objectives.
StructuralIssues(path) ==
    (IF path.difficulty = "beginner" /\ path.total_estimated_hours > 10 * MaxHoursBeginnerPath
     THEN {<<"beginner_hour_cap", 0>>} ELSE {})
    \cup (IF path.prerequisites = <<>> /\ path.difficulty # "beginner"
          THEN {<<"prerequisites_required", 0>>} ELSE {})
    \cup {<<"module_objectives", m>> : m \in {k \in 1..Len(path.modules) : path.modules[k].objectives = 0}}

\* validate over the paths of a curriculum: the issues, by place of the path.
ValidateStructure(ps) ==
    UNION {{<<k, i>> : i \in StructuralIssues(ps[k])} : k \in 1..Len(ps)}

VARIABLES
    bpc,          \* position of build: "idle", "paths", "done", "validated"
    pdomain,      \* build's argument domain
    presources,   \* build's argument resources
    diff_index,   \* the place in the loop over the three difficulties
    paths,        \* build's local paths
    issues,       \* what validate reported on the paths under rules 2, 5, 7
    \* history variables (not program state)
    untrimmed,    \* the modules of the latest _build_path before the hour cap
    built         \* the path the latest _build_path returned, if any

pathVars == <<bpc, pdomain, presources, diff_index, paths, issues, untrimmed, built>>

PathInit ==
    /\ bpc = "idle"
    /\ pdomain = "ml_basics"
    /\ presources = <<>>
    /\ diff_index = 0
    /\ paths = <<>>
    /\ issues = {}
    /\ untrimmed = <<>>
    /\ built = None

\* build(domain, resources) up to the loop over the difficulties.
Build ==
    /\ bpc = "idle"
    /\ pdomain' \in PathDomains
    /\ \E n \in 0..NumPathResources : presources' \in PathInputs(n)
    /\ bpc' = "paths"
    /\ diff_index' = 1
    /\ UNCHANGED <<paths, issues, untrimmed, built>>

Bucket(diff) == SelectSeq(presources, LAMBDA r : r.difficulty = diff)

\* One turn of the loop: a difficulty without resources is passed over.
BuildSkip ==
    /\ bpc = "paths"
    /\ diff_index <= Len(Difficulties)
    /\ Bucket(Difficulties[diff_index]) = <<>>
    /\ diff_index' = diff_index + 1
    /\ untrimmed' = <<>>
    /\ built' = None
    /\ UNCHANGED <<bpc, pdomain, presources, paths, issues>>

\* One turn of the loop: the path of a difficulty is built, and kept when it
\* has modules.
BuildOne ==
    /\ bpc = "paths"
    /\ diff_index <= Len(Difficulties)
    /\ LET diff == Difficulties[diff_index]
           path == BuildPath(pdomain, diff, Bucket(diff))
       IN  /\ Bucket(diff) # <<>>
           /\ untrimmed' = ModulesOf(Bucket(diff))
           /\ built' = Some(path)
           /\ paths' = IF path.modules # <<>> THEN Append(paths, path) ELSE paths
    /\ diff_index' = diff_index + 1
    /\ UNCHANGED <<bpc, pdomain, presources, issues>>

\* build returns paths.
BuildReturn ==
    /\ bpc = "paths"
    /\ diff_index > Len(Difficulties)
    /\ bpc' = "done"
    /\ untrimmed' = <<>>
    /\ built' = None
    /\ UNCHANGED <<pdomain, presources, diff_index, paths, issues>>

\* generate validates the curriculum of the paths with an engine of the
\* builder's settings.
Validate ==
    /\ bpc = "done"
    /\ issues' = ValidateStructure(paths)
    /\ bpc' = "validated"
    /\ UNCHANGED <<pdomain, presources, diff_index, paths, untrimmed, built>>

PathNext ==
    \/ Build
    \/ BuildSkip
    \/ BuildOne
    \/ BuildReturn
    \/ Validate

\* ---------------------------------------------------------------------------
\* Part 8: CurriculumGenerator.generate (curriculum/generator.py) and the
\* CurriculumRepository (storage/repository.py)
\* ---------------------------------------------------------------------------

\* The generate calls of one behaviour, and the states the catalog goes
\* through in it, at most.
MaxGenerations == 3

NumCatalogStates == 2

\* generate's argument target_domains: None (or the empty list, false alike),
\* or a list of domains.
TargetDomainArgs == {None, <<"nlp">>, <<"mlops">>, <<"ai_strategy">>}

\* generate's argument title: None (or the empty string), or a title.
TitleArgs == {None, <<"Custom">>}

\* DOMAIN_CATEGORY, for the domains of the model.
DomainCategory(d) == IF d = "ai_strategy" THEN "Business" ELSE "Technical"

\* sorted(c.value.title() for c in categories), for one or two categories.
SortedCategories(tds) ==
    LET cats == {DomainCategory(tds[k]) : k \in 1..Len(tds)}
    IN  (IF "Business" \in cats THEN <<"Business">> ELSE <<>>)
        \o (IF "Technical" \in cats THEN <<"Technical">> ELSE <<>>)

\* The title of the curriculum: the given one, or one made from the
\* categories of the target domains, or the title of a curriculum of all.
TitleOf(title, tds) ==
    IF title # None THEN title
    ELSE IF tds # None THEN <<"AI">> \o SortedCategories(tds) \o <<"Best Practices Curriculum">>
    ELSE <<"Comprehensive AI Best Practices Curriculum">>

\* ResourceCatalog.catalog_hash: a digest of the data of the store.
CatalogHash(c) == Sha256(c)

\* curriculum_id = sha256(f"{title}-{catalog_hash}")
CurriculumId(title, hash) == Sha256(<<title, "-", hash>>)

\* The learning paths of a curriculum, as what they are built from: the
\* catalog and the target domains.
LearningPaths(c, tds) == [catalog |-> c, target_domains |-> tds]

\* The Curriculum generate builds.
Curriculum(title, tds, c, now) ==
    [id |-> CurriculumId(TitleOf(title, tds), CatalogHash(c)),
     title |-> TitleOf(title, tds),
     learning_paths |-> LearningPaths(c, tds),
     generated_at |-> now,
     source_catalog_hash |-> CatalogHash(c)]

\* What validate can report: no issue, warnings only, or errors.
ValidationOutcomes == {"clean", "warnings", "errors"}

VARIABLES
    gpc,            \* position of generate: "idle", "validate", "persist"
    has_repo,       \* CurriculumGenerator._repo is set
    catalog_state,  \* the data of the catalog's store
    now,            \* the clock: it moves with every generate call
    curriculum,     \* generate's local curriculum
    validation,     \* the validation of the latest generate call ("none": not yet run)
    curricula,      \* the files of the CurriculumRepository, by curriculum id
    \* history variables (not program state)
    generated,      \* the ids of the curricula generate has returned, in order
    first_saved     \* for each id, the document first saved under it

curriculumVars ==
    <<gpc, has_repo, catalog_state, now, curriculum, validation, curricula, generated,
      first_saved>>

CurriculumIdle ==
    /\ gpc = "idle"
    /\ catalog_state = 1
    /\ now = 0
    /\ curriculum = None
    /\ validation = "none"
    /\ curricula = EmptyDict
    /\ generated = <<>>
    /\ first_saved = EmptyDict

\* A generator without a repository: the state of this part while another
\* part is explored.
CurriculumInit == CurriculumIdle /\ has_repo = FALSE

\* A generator with or without a repository.
CurriculumStart == CurriculumIdle /\ has_repo \in BOOLEAN

\* An upsert or delete changes the catalog between two generate calls.
CatalogChanges ==
    /\ gpc = "idle"
    /\ catalog_state < NumCatalogStates
    /\ catalog_state' = catalog_state + 1
    /\ UNCHANGED <<gpc, has_repo, now, curriculum, validation, curricula, generated,
                   first_saved>>

\* generate(target_domains, title) up to the curriculum.
GenerateBuild ==
    /\ gpc = "idle"
    /\ now < MaxGenerations
    /\ now' = now + 1
    /\ \E tds \in TargetDomainArgs, title \in TitleArgs :
          curriculum' = Some(Curriculum(title, tds, catalog_state, now'))
    /\ gpc' = "validate"
    /\ validation' = "none"
    /\ UNCHANGED <<has_repo, catalog_state, curricula, generated, first_saved>>

\* The Best Practices Engine validates the curriculum.
GenerateValidate ==
    /\ gpc = "validate"
    /\ validation' \in ValidationOutcomes
    /\ gpc' = "persist"
    /\ UNCHANGED <<has_repo, catalog_state, now, curriculum, curricula, generated, first_saved>>

\* A curriculum with errors is not saved (mutant).
ShouldSaveValid(repo, vreport) == repo /\ vreport # "errors"

\* if self._repo: the report of the validation is not asked.
ShouldSave(repo, vreport) == repo

\* CurriculumRepository.save writes the document to the file of its id, and
\* generate returns the curriculum and its validation; without a repository
\* generate returns at once.
GeneratePersist ==
    /\ gpc = "persist"
    /\ LET c == curriculum[1]
           save == ShouldSave(has_repo, validation)
       IN  /\ curricula' = IF save THEN DictPut(curricula, c.id, c) ELSE curricula
           /\ first_saved' = IF save /\ c.id \notin DOMAIN first_saved
                             THEN DictPut(first_saved, c.id, c) ELSE first_saved
           /\ generated' = Append(generated, c.id)
    /\ gpc' = "idle"
    /\ curriculum' = None
    /\ UNCHANGED <<has_repo, catalog_state, now, validation>>

\* The write of the document fails and generate raises; the file is as before.
GenerateSaveFails ==
    /\ gpc = "persist"
    /\ has_repo
    /\ gpc' = "idle"
    /\ curriculum' = None
    /\ UNCHANGED <<has_repo, catalog_state, now, validation, curricula, generated,
                   first_saved>>

CurriculumNext ==
    \/ CatalogChanges
    \/ GenerateBuild
    \/ GenerateValidate
    \/ GeneratePersist
    \/ GenerateSaveFails

\* ---------------------------------------------------------------------------
\* Part 9: LearningPathBuilder._apply_diversity (curriculum/learning_path.py),
\* called on its own with lists long enough for a cap of two per provider
\* ---------------------------------------------------------------------------

\* The resources one call of _apply_diversity is given, at most.
NumDiversityResources == 5

\* The providers of the resources: none, the name "unknown", and two others.
DiversityProviders == {"", "unknown", "acme", "beta"}

\* The lists of n resources of one difficulty, sorted by quality score (all
\* of one score); the id of a resource is its place in the list.
DiversityInputs(n) ==
    {[i \in 1..n |-> PathResource(i, ps[i], "beginner", MinQualityScore, None)] :
        ps \in [1..n -> DiversityProviders]}

VARIABLES
    apc,          \* position of _apply_diversity: "idle", "done"
    dresources,   \* _apply_diversity's argument resources
    diversified   \* what _apply_diversity returned

diversityVars == <<apc, dresources, diversified>>

DiversityInit ==
    /\ apc = "idle"
    /\ dresources = <<>>
    /\ diversified = <<>>

\* _apply_diversity(resources) runs and returns.
DiversityCall ==
    /\ apc = "idle"
    /\ \E n \in 0..NumDiversityResources : \E rs \in DiversityInputs(n) :
        /\ dresources' = rs
        /\ diversified' = ApplyDiversity(rs)
    /\ apc' = "done"

\* The caller has the list.
DiversityFinish ==
    /\ apc = "done"
    /\ apc' = "idle"
    /\ dresources' = <<>>
    /\ diversified' = <<>>

DiversityNext ==
    \/ DiversityCall
    \/ DiversityFinish

vars == <<catVars, httpVars, searchVars, discoveryVars, ingestionVars, dedupVars, pathVars, curriculumVars, diversityVars>>

Init == CatInit /\ HttpInit /\ SearchUnconfigured /\ DiscoveryInit /\ IngestionInit /\ DedupInit /\ PathInit /\ CurriculumInit /\ DiversityInit

\* the catalog and its store
Next == CatNext /\ UNCHANGED <<httpVars, searchVars, discoveryVars, ingestionVars, dedupVars, pathVars, curriculumVars, diversityVars>>

Spec == Init /\ [][Next]_vars

\* the fetch layer
NextHttp == HttpNext /\ UNCHANGED <<catVars, searchVars, discoveryVars, ingestionVars, dedupVars, pathVars, curriculumVars, diversityVars>>

SpecHttp == Init /\ [][NextHttp]_vars

\* the searchers
NextSearch == SearchNext /\ UNCHANGED <<catVars, httpVars, discoveryVars, ingestionVars, dedupVars, pathVars, curriculumVars, diversityVars>>

InitSearch == CatInit /\ HttpInit /\ SearchInit /\ DiscoveryInit /\ IngestionInit /\ DedupInit /\ PathInit /\ CurriculumInit /\ DiversityInit

SpecSearch == InitSearch /\ [][NextSearch]_vars

\* a discovery run
NextDiscovery == DiscoveryNext /\ UNCHANGED <<catVars, httpVars, searchVars, ingestionVars, dedupVars, pathVars, curriculumVars, diversityVars>>

SpecDiscovery == Init /\ [][NextDiscovery]_vars

\* an ingestion run
NextIngestion == IngestionNext /\ UNCHANGED <<catVars, httpVars, searchVars, discoveryVars, dedupVars, pathVars, curriculumVars, diversityVars>>

InitIngestion == CatInit /\ HttpInit /\ SearchUnconfigured /\ DiscoveryInit /\ IngestionStart /\ DedupInit /\ PathInit /\ CurriculumInit /\ DiversityInit

SpecIngestion == InitIngestion /\ [][NextIngestion]_vars

\* a call of find_duplicates
NextDedup == DedupNext /\ UNCHANGED <<catVars, httpVars, searchVars, discoveryVars, ingestionVars, pathVars, curriculumVars, diversityVars>>

SpecDedup == Init /\ [][NextDedup]_vars

\* a call of LearningPathBuilder.build
NextPath == PathNext /\ UNCHANGED <<catVars, httpVars, searchVars, discoveryVars, ingestionVars, dedupVars, curriculumVars, diversityVars>>

SpecPath == Init /\ [][NextPath]_vars

\* generate calls on one catalog
NextCurriculum == CurriculumNext /\ UNCHANGED <<catVars, httpVars, searchVars, discoveryVars, ingestionVars, dedupVars, pathVars, diversityVars>>

InitCurriculum == CatInit /\ HttpInit /\ SearchUnconfigured /\ DiscoveryInit /\ IngestionInit /\ DedupInit /\ PathInit /\ CurriculumStart /\ DiversityInit

SpecCurriculum == InitCurriculum /\ [][NextCurriculum]_vars

\* a call of LearningPathBuilder._apply_diversity
NextDiversity == DiversityNext /\ UNCHANGED <<catVars, httpVars, searchVars, discoveryVars, ingestionVars, dedupVars, pathVars, curriculumVars>>

SpecDiversity == Init /\ [][NextDiversity]_vars

\* ==========================================================================
\* Claims about the catalog and its store (specification Spec)
\* ==========================================================================

WriteSection == {"mkstemp", "dump", "replace", "except", "release"}

Accepted(t) == resource[t].quality_score >= min_score[t]

\* C1: for the upserts of one id that passed the threshold, the catalog holds one
\* entry for the id; its score is the greatest score submitted and its
\* discovered_at is that of the first sighting.
C1_UpsertKeepsMaxAndFirst ==
    \A i \in Ids :
        /\ (i \in DOMAIN cache) <=> (best[i] >= 0)
        /\ i \in DOMAIN cache =>
              /\ cache[i].id = i
              /\ cache[i].quality_score = best[i]
              /\ cache[i].discovered_at = first[i]

\* C1 witness: a resubmission with a lower score and a later timestamp has just
\* been merged into an existing entry.
C1_Witness ==
    \E t \in Tasks :
        /\ pc[t] = "lock" /\ op[t] = "upsert" /\ seen[t]
        /\ submitted[t].quality_score < cache[submitted[t].id].quality_score
        /\ submitted[t].discovered_at > cache[submitted[t].id].discovered_at

\* C2 (as claimed): upsert returns true whenever the resource passed the
\* threshold, merged or not, and false only when it was rejected.
C2_ReturnsAccepted ==
    \A t \in Tasks :
        (pc[t] = "return" /\ op[t] = "upsert" /\ result[t] /= "raised") =>
            (result[t] = "true" <=> Accepted(t))

\* C2 (amended): upsert returns true exactly when the resource passed the
\* threshold and the catalog had no entry with its id; it returns false when the
\* resource was rejected and when it was merged into an existing entry.
C2_ReturnsIsNew ==
    \A t \in Tasks :
        (pc[t] = "return" /\ op[t] = "upsert" /\ result[t] /= "raised") =>
            /\ result[t] \in {"true", "false"}
            /\ result[t] = "true" <=> (Accepted(t) /\ ~seen[t])

\* C2 witness: an accepted resource was merged and upsert returned false.
C2_Witness ==
    \E t \in Tasks :
        /\ pc[t] = "return" /\ op[t] = "upsert" /\ result[t] = "false"
        /\ Accepted(t) /\ seen[t]

\* C3: when an upsert that accepted a resource returns, the store holds the
\* resource under its id with the merged score and discovered_at; an upsert that
\* rejects leaves the index and the store as they were.
C3_WriteThrough ==
    [][\A t \in Tasks :
          (pc[t] /= "return" /\ pc'[t] = "return" /\ op[t] = "upsert"
              /\ result'[t] /= "raised") =>
             IF pc[t] = "gate"
             THEN UNCHANGED <<cache, loaded, file, tmp>>
             ELSE LET i == resource[t].id
                  IN  /\ file'.exists /\ file'.complete
                      /\ i \in DOMAIN file'.data
                      /\ file'.data[i] = ModelDump(Resource(i, best'[i], first'[i]))
      ]_vars

\* C3 witness: an upsert that merged into an existing entry has returned and
\* the store holds the merged entry.
C3_Witness ==
    \E t \in Tasks :
        /\ pc[t] = "return" /\ op[t] = "upsert" /\ result[t] = "false" /\ seen[t]
        /\ resource[t].id \in DOMAIN ReadSync(file)
        /\ ReadSync(file)[resource[t].id] = ModelDump(cache[resource[t].id])

\* C4: the backing file is complete at every moment; it changes only by the
\* rename of a fully written temporary file to the new content; a failed write
\* removes the temporary file, leaves the backing file as it was and raises.
C4_AtomicWrite ==
    /\ [](file.complete)
    /\ [][/\ file' /= file =>
               \E t \in Tasks :
                   /\ pc[t] = "replace"
                   /\ file' = [exists |-> TRUE, complete |-> TRUE, data |-> updated[t]]
          /\ \A t \in Tasks :
               (pc[t] = "except" /\ pc'[t] = "return") =>
                   /\ result'[t] = "raised"
                   /\ tmp'.state = "none"
                   /\ ReadSync(file') = entry[t]
         ]_vars

\* C4 witness: a write that would have changed the store failed; the caller has
\* the error, no temporary file is left and the store is as it was.
C4_Witness ==
    \E t \in Tasks :
        /\ pc[t] = "return" /\ result[t] = "raised"
        /\ tmp.state = "none"
        /\ file.exists /\ ReadSync(file) = entry[t]
        /\ updated[t] /= entry[t]

\* C5: a read-modify-write of the store runs under the lock, one at a time, and
\* when the calls of a batch have completed the store holds every id a call of
\* the batch saved (and no later call of the batch deleted).
C5_NoLostUpdate ==
    /\ \A t \in Tasks : pc[t] \in WriteSection <=> lock = t
    /\ Cardinality({t \in Tasks : pc[t] \in WriteSection}) <= 1
    /\ Running = {} => batch \subseteq DOMAIN ReadSync(file)

\* C5 witness: the calls of one gather saved two different ids and all have
\* completed.
C5_Witness ==
    /\ \A t \in Tasks : pc[t] = "idle"
    /\ Cardinality(batch) >= 2

\* ==========================================================================
\* Claims about the fetch layer (specification SpecHttp)
\* ==========================================================================

\* the calls whose request has been sent and not yet answered
InFlight == {f \in Fetchers : fpc[f] = "flight"}

\* C6: however many calls of get run at the same time, and re-attempts
\* included, the requests in flight at one time never exceed
\* max_concurrent_requests (each of them holds one slot of the semaphore).
C6_InFlightBounded ==
    /\ Cardinality(InFlight) <= MaxConcurrentRequests
    /\ semaphore = MaxConcurrentRequests - Cardinality(InFlight)

\* Every slot is taken and a re-attempt waits for one.
C6_Witness ==
    /\ Cardinality(InFlight) = MaxConcurrentRequests
    /\ \E f \in Fetchers : fpc[f] = "sem" /\ attempt[f] > 1

\* C7: any two requests sent to the same host are sent at least one interval
\* apart, also when a call that passed the limiter waited for a free slot: a
\* step that sends a request to a host finds the last one sent to that host at
\* least Interval ticks back.
C7_SameHostSpacing ==
    [][\A f \in Fetchers :
        (fpc[f] /= "flight" /\ fpc'[f] = "flight")
            => since_dispatch[url'[f]] >= Interval]_vars

\* C8: a call makes at most 3 attempts; an attempt after the first follows
\* attempts that all ended with a connection or timeout failure; the call
\* raises such a failure only when it ended the third attempt, any other
\* exception at the attempt it ended; a response, 2xx or not, is returned
\* after the attempt that received it.
C8_BoundedRetry ==
    \A f \in Fetchers :
        /\ attempt[f] <= MaxAttempts
        /\ fpc[f] \in {"acquire", "sleep", "sem", "flight"}
            => outcome[f] = "none" /\ failed[f] = attempt[f] - 1
        /\ fpc[f] = "backoff"
            => outcome[f] = "transient" /\ failed[f] = attempt[f] /\ attempt[f] < MaxAttempts
        /\ fpc[f] = "returned"
            => outcome[f] \in {"2xx", "non2xx"} /\ failed[f] = attempt[f] - 1
        /\ fpc[f] = "raised"
            => \/ outcome[f] = "transient" /\ failed[f] = MaxAttempts /\ attempt[f] = MaxAttempts
               \/ outcome[f] = "other" /\ failed[f] = attempt[f] - 1
        /\ outcome[f] \in {"2xx", "non2xx"} => fpc[f] = "returned"
        /\ outcome[f] = "other" => fpc[f] = "raised"

\* A call raised after its third connection or timeout failure, another
\* returned a non-2xx response of its first attempt.
C8_Witness ==
    /\ \E f \in Fetchers :
        fpc[f] = "raised" /\ outcome[f] = "transient" /\ attempt[f] = MaxAttempts
    /\ \E f \in Fetchers :
        fpc[f] = "returned" /\ outcome[f] = "non2xx" /\ attempt[f] = 1

\* ==========================================================================
\* Claims about the searchers (specification SpecSearch)
\* ==========================================================================

\* C9 as the specification states it: whenever an exception occurred inside
\* a variant's search call, the call raises nothing to the orchestrator and
\* yields an empty result set.
C9_FailureYieldsEmpty ==
    (spc = "done" /\ failure) => (~raised /\ found = <<>>)

\* C9: whenever an exception occurred inside a variant's search call, the call
\* raises nothing to the orchestrator; the code-hosting and the preprint
\* variant yield an empty result set, the web-search variant yields the
\* results it had collected when the exception occurred, cut to max_results.
C9_FailureIsolated ==
    (spc = "done" /\ failure) =>
        /\ ~raised
        /\ searcher \in {"github", "arxiv"} => found = <<>>
        /\ searcher = "google" => found = Truncate(kept, max_results)

\* The web-search variant failed on a later page and gave back the results of
\* the pages before.
C9_Witness ==
    /\ spc = "done"
    /\ failure
    /\ searcher = "google"
    /\ requests > 1
    /\ found /= <<>>

\* C10 as the specification states it: a search call of a variant that takes
\* credentials, made without them, yields an empty result set and raises
\* nothing.
C10_NoCredentialsYieldsEmpty ==
    /\ (spc = "done" /\ searcher = "google" /\ ~(api_key /\ cse_id))
        => (~raised /\ found = <<>>)
    /\ (spc = "done" /\ searcher = "github" /\ ~token)
        => (~raised /\ found = <<>>)

\* C10: without its two credentials the web-search variant makes no request,
\* yields an empty result set and raises nothing; without its token the
\* code-hosting variant raises nothing either, but makes its request, without
\* an Authorization header, and yields what that request gives.
C10_NoCredentials ==
    /\ (spc = "done" /\ searcher = "google" /\ ~(api_key /\ cse_id))
        => (~raised /\ found = <<>> /\ requests = 0)
    /\ (spc /= "idle" /\ searcher = "github" /\ ~token)
        => (~raised /\ requests = 1 /\ ~auth_header)
    /\ (spc = "done" /\ searcher = "github" /\ ~token /\ ~failure)
        => found = results

\* The code-hosting variant, without a token, made its request and yielded
\* results.
C10_Witness ==
    /\ spc = "done"
    /\ searcher = "github"
    /\ ~token
    /\ ~auth_header
    /\ requests = 1
    /\ found /= <<>>

\* ==========================================================================
\* Claims about a discovery run (specification SpecDiscovery)
\* ==========================================================================

\* the canonical form of a url: trimmed, trailing slashes stripped, case-folded
Folded(u) == Lower(RStrip(Strip(u), "/"))

\* C11: the results of a run are deduplicated by canonical url before they
\* are evaluated: no two results that are kept have the same canonical url,
\* and no two resources evaluated in one run have the same id.
C11_OnePerCanonicalUrl ==
    /\ \A i, j \in 1..Len(unique_results) :
        i /= j => Folded(unique_results[i]) /= Folded(unique_results[j])
    /\ \A i, j \in 1..Len(evaluated) : i /= j => evaluated[i] /= evaluated[j]

\* A run dropped a result whose url differs from an earlier one only in its
\* spelling, and evaluated two resources.
C11_Witness ==
    /\ dpc = "done"
    /\ raw_count > Len(unique_results)
    /\ Len(evaluated) = 2

\* C12: a failure while a result is evaluated or upserted is recorded in the
\* report's errors and does not abort the run: the run does not raise, the
\* results gone through so far are counted once each in new_resources,
\* updated_resources, below_threshold or errors, and when the run returns
\* every unique result has been gone through.
C12_FailuresCounted ==
    LET counted == report.new_resources + report.updated_resources
                       + report.below_threshold + Len(report.errors)
    IN  /\ dpc /= "raised"
        /\ dpc \in {"evaluate", "done"} => counted = pos - 1
        /\ dpc = "done" => counted = Len(unique_results) /\ counted = report.raw_results

\* A run returned whose first result failed in the store after the index had
\* taken it, and whose second result was counted.
C12_Witness ==
    /\ dpc = "done"
    /\ Len(unique_results) = 2
    /\ report.errors = <<unique_results[1]>>
    /\ report.new_resources + report.updated_resources + report.below_threshold = 1
    /\ ResourceId(unique_results[1]) \in known

\* C13: queries_executed equals (#general queries x #searchers) + (#hands-on
\* queries x #code-hosting searchers), which is the number of search calls the
\* run creates: every general query goes to every searcher, every hands-on
\* query to the code-hosting searchers only.
C13_QueriesExecuted ==
    dpc = "gather" =>
        LET hosting == {i \in 1..Len(registered) : registered[i] = "github"}
            calls(k, q, n) ==
                Cardinality({i \in 1..Len(tasks) :
                    tasks[i] = [kind |-> k, query |-> q, searcher |-> n]})
            named(n) == Cardinality({i \in 1..Len(registered) : registered[i] = n})
        IN  /\ report.queries_executed
                 = queries * Len(registered) + github_queries * Cardinality(hosting)
            /\ report.queries_executed = Len(tasks)
            /\ \A q \in 1..queries, n \in Searchers : calls("general", q, n) = named(n)
            /\ \A q \in 1..github_queries, n \in Searchers :
                 calls("github", q, n) = IF n = "github" THEN named(n) ELSE 0

\* A run with a code-hosting searcher and another one, general queries and
\* hands-on queries has created its search calls.
C13_Witness ==
    /\ dpc = "gather"
    /\ registered = <<"google", "github">>
    /\ queries = MaxQueries
    /\ github_queries = MaxQueries
    /\ Len(tasks) = 3 * MaxQueries

\* ---------------------------------------------------------------------------
\* Claims about an ingestion run
\* ---------------------------------------------------------------------------

\* C14: a resource without a capable scraper, or whose scrape returns nothing
\* or raises, is counted as failed; it neither makes the run raise (the run
\* does not raise before stage 3) nor keeps another scrape task from ending
\* (past the gather every task has given its result); and from the end of the
\* results loop to the return, scraped + failed = total_resources.
C14_ScrapeFailuresCounted ==
    /\ ipc = "raised" => ipos >= 1
    /\ ipc \in {"stage3", "done"} =>
        /\ Len(scrape_results) = ireport.total_resources
        /\ \A k \in DOMAIN scrape_results : scrape_results[k].kind # "pending"
        /\ ireport.failed =
              Cardinality({k \in DOMAIN scrape_results :
                              scrape_results[k].kind \in {"None", "Exception"}})
        /\ ireport.scraped + ireport.failed = ireport.total_resources

\* A run has returned in which a scrape raised and another gave a content.
C14_Witness ==
    /\ ipc = "done"
    /\ \E k \in DOMAIN scrape_results : scrape_results[k].kind = "Exception"
    /\ ireport.scraped >= 1
    /\ ireport.failed >= 1

\* C15: when a run has returned, every resource flagged as a duplicate is in
\* the catalog (cache and repository), inactive, with the domains, tags and
\* estimated hours it had before the run, and every entry the catalog had
\* before the run is still there.
C15_DuplicatesKeptInactive ==
    ipc = "done" =>
        /\ \A id \in flagged_ids :
            /\ id \in DOMAIN icache /\ id \in DOMAIN irepo
            /\ \A e \in {icache[id], irepo[id]} :
                /\ e.is_active = FALSE
                /\ e.domains = before[id].domains
                /\ e.tags = before[id].tags
                /\ e.estimated_hours = before[id].estimated_hours
        /\ DOMAIN before \subseteq DOMAIN icache
        /\ DOMAIN before \subseteq DOMAIN irepo

\* A run has returned that flagged a resource with a domain and categorised
\* another resource.
C15_Witness ==
    /\ ipc = "done"
    /\ \E id \in flagged_ids : before[id].domains # <<>> /\ before[id].is_active
    /\ ireport.recategorized >= 1

\* C16 as stated: with explicit ids the candidates are exactly the catalog
\* resources with those ids, whatever their score; with none, exactly the
\* catalog resources with quality_score >= min_score.
C16_CandidatesAsStated ==
    ipc # "idle" =>
        LET candidates == {all_resources[k] : k \in 1..Len(all_resources)}
        IN  /\ (resource_ids.given /\ resource_ids.ids # {}) =>
                    candidates = resource_ids.ids \cap DOMAIN before
            /\ ~resource_ids.given =>
                    candidates = {i \in DOMAIN before : before[i].quality_score >= ingest_min}

C24_StagesInOrder ==
    /\ ipc = "scrape" =>
        /\ contents = <<>>
        /\ flagged_ids = {}
        /\ ireport.duplicate_groups = 0 /\ ireport.recategorized = 0
        /\ icache = before /\ irepo = before
    /\ (ipc \in {"stage3", "done"} \/ icache # before \/ irepo # before) =>
        /\ \A k \in DOMAIN scrape_results : scrape_results[k].kind # "pending"
        /\ Len(contents) =
              Cardinality({k \in DOMAIN scrape_results : scrape_results[k].kind = "content"})
        /\ flagged_ids \subseteq {contents[k].resource_id : k \in 1..Len(contents)}
        /\ ipos >= 1

\* A run has returned that flagged one content as a duplicate and
\* recategorised another.
C24_Witness ==
    /\ ipc = "done"
    /\ flagged_ids # {}
    /\ ireport.recategorized >= 1
    /\ icache # before

\* C25 as stated: when stage 3 has categorised a content that is no duplicate
\* and the categorizer gave a primary domain, that domain is the first of the
\* resource's domains, and the domain that was first before the run, if
\* another, is still among them, after the first place.
C25_PrimaryDomainFirst ==
    (ipc \in {"stage3", "done"} /\ ipos >= 2 /\ last_cat # None
        /\ last_cat[1].primary_domain # None) =>
        LET id == contents[ipos - 1].resource_id
            ds == icache[id].domains
            old == before[id].domains
        IN  /\ ds # <<>>
            /\ ds[1] = last_cat[1].primary_domain[1]
            /\ (old # <<>> /\ old[1] # ds[1]) => InSeq(old[1], Tail(ds))

\* ---------------------------------------------------------------------------
\* Claims about find_duplicates
\* ---------------------------------------------------------------------------

\* The contents of the call, by resource id.
DocIds == {dcontents[k].resource_id : k \in 1..Len(dcontents)}

DocOf(id) == dcontents[CHOOSE k \in 1..Len(dcontents) : dcontents[k].resource_id = id]

\* The trigram set of every content.
TrigramSets == [a \in DocIds |-> Trigrams(DocOf(a).text_content)]

\* The pairs of different contents whose trigram sets have a Jaccard
\* similarity of 85 % or more.
SimilarPairs ==
    LET Pairs(tri) ==
            {pr \in DocIds \X DocIds :
                /\ pr[1] # pr[2]
                /\ 100 * Cardinality(tri[pr[1]] \cap tri[pr[2]])
                       >= 85 * Cardinality(tri[pr[1]] \cup tri[pr[2]])}
    IN  CHOOSE rel \in {Pairs(tri) : tri \in {TrigramSets}} : TRUE

\* The connected component of the contents S under the relation rel.
RECURSIVE Closure(_, _)
Closure(rel, S) ==
    LET T == S \cup {b \in DocIds : \E a \in S : <<a, b>> \in rel}
    IN  IF T = S THEN S ELSE Closure(rel, T)

GroupMembers(g) == {g.canonical_id} \cup {g.duplicate_ids[k] : k \in 1..Len(g.duplicate_ids)}

\* C17: when find_duplicates has returned, its groups are the connected
\* components of two or more contents: every such component is the member set
\* of exactly one group, every group's members are such a component, the
\* canonical id is a member with the greatest heading count and is not among
\* the duplicate ids, and no content is in two groups or twice in one; a
\* content similar to no other content is in no group.
\* (rel and comp are the relation and the component of each content, each
\* computed once.)
C17_GroupsAreComponents ==
    ddpc = "done" =>
      \E rel \in {SimilarPairs} :
      \E comp \in {[a \in DocIds |-> Closure(rel, {a})]} :
        /\ \A a \in DocIds :
              Cardinality(comp[a]) >= 2 =>
                  Cardinality({k \in 1..Len(dup_groups) :
                                  GroupMembers(dup_groups[k]) = comp[a]}) = 1
        /\ \A k \in 1..Len(dup_groups) :
              LET g == dup_groups[k] IN
              /\ GroupMembers(g) = comp[g.canonical_id]
              /\ Len(g.duplicate_ids) >= 1
              /\ \A m \in 1..Len(g.duplicate_ids) : g.duplicate_ids[m] # g.canonical_id
              /\ \A m, n \in 1..Len(g.duplicate_ids) :
                    g.duplicate_ids[m] = g.duplicate_ids[n] => m = n
              /\ \A b \in GroupMembers(g) :
                    DocOf(g.canonical_id).headings >= DocOf(b).headings
        /\ \A k, m \in 1..Len(dup_groups) :
              k # m => GroupMembers(dup_groups[k]) \cap GroupMembers(dup_groups[m]) = {}
        /\ \A a \in DocIds :
              (\A b \in DocIds : <<a, b>> \notin rel) =>
                  \A k \in 1..Len(dup_groups) : a \notin GroupMembers(dup_groups[k])

\* A call has returned a group of three contents two of which are not similar
\* to each other, whose canonical content is not the first of the list and
\* has more headings than another member.
C17_Witness ==
    /\ ddpc = "done"
    /\ \E k \in 1..Len(dup_groups) :
        LET g == dup_groups[k] IN
        /\ Len(g.duplicate_ids) = 2
        /\ g.canonical_id # dcontents[1].resource_id
        /\ \E b \in GroupMembers(g) : DocOf(g.canonical_id).headings > DocOf(b).headings
        /\ \E a, b \in GroupMembers(g) : a # b /\ <<a, b>> \notin SimilarPairs

\* C26 as stated: the similarity of a group is the mean of the similarities
\* of the pairs of its members: the mean is taken over every pair of members,
\* and for a group of two contents it is the Jaccard similarity of the two,
\* which is at or above the threshold, whatever their ids and their order in
\* the list.
C26_SimilarityIsPairwiseMean ==
    ddpc = "done" =>
        \A k \in 1..Len(dup_groups) :
            LET g == dup_groups[k]
                n == Cardinality(GroupMembers(g))
            IN  /\ 2 * Len(g.similarity) = n * (n - 1)
                /\ n = 2 =>
                    /\ g.similarity =
                          <<Similarity(DocOf(g.canonical_id), DocOf(g.duplicate_ids[1]))>>
                    /\ AtLeast(g.similarity[1], ThresholdPercent)

\* ---------------------------------------------------------------------------
\* Claims about the learning path builder
\* ---------------------------------------------------------------------------

\* The sum of the hours of the first k modules of ms.
RECURSIVE PrefixHours(_, _)
PrefixHours(ms, k) == IF k = 0 THEN 0 ELSE PrefixHours(ms, k - 1) + ms[k].estimated_hours

\* C18: every beginner path the builder keeps has module hours that sum to the
\* cap at most; the modules of the path _build_path has just returned are a
\* prefix of its untrimmed modules: for a beginner path over the cap the
\* longest prefix whose hours sum to the cap at most, in every other case all
\* of them.
C18_BeginnerHourCap ==
    /\ \A k \in 1..Len(paths) :
          paths[k].difficulty = "beginner" =>
              PrefixHours(paths[k].modules, Len(paths[k].modules)) <= MaxHoursBeginnerPath
    /\ built # None =>
          LET keptModules == built[1].modules
              untrimmedHours == PrefixHours(untrimmed, Len(untrimmed))
          IN  /\ Len(keptModules) <= Len(untrimmed)
              /\ keptModules = SubSeq(untrimmed, 1, Len(keptModules))
              /\ IF built[1].difficulty = "beginner" /\ untrimmedHours > MaxHoursBeginnerPath
                 THEN /\ PrefixHours(untrimmed, Len(keptModules)) <= MaxHoursBeginnerPath
                      /\ \A n \in (Len(keptModules) + 1)..Len(untrimmed) :
                            PrefixHours(untrimmed, n) > MaxHoursBeginnerPath
                 ELSE keptModules = untrimmed

\* A beginner path of three modules has been trimmed to its first module
\* although the third module would have fitted in place of the second.
C18_Witness ==
    /\ built # None
    /\ built[1].difficulty = "beginner"
    /\ Len(untrimmed) = 3
    /\ Len(built[1].modules) = 1
    /\ untrimmed[1].estimated_hours + untrimmed[3].estimated_hours <= MaxHoursBeginnerPath

\* C19 as stated: in every path the builder returns, no provider has more
\* than 40 % of the path's resources.
C19_ProviderShareCapped ==
    bpc = "done" =>
        \A k \in 1..Len(paths) :
            LET ids == UNION {{paths[k].modules[m].resource_ids[i] :
                                  i \in 1..Len(paths[k].modules[m].resource_ids)} :
                              m \in 1..Len(paths[k].modules)}
            IN  \A p \in {presources[i].provider : i \in ids} :
                    100 * Cardinality({i \in ids : presources[i].provider = p})
                        <= 40 * Cardinality(ids)

\* The provider a resource counts for: an empty provider is "unknown".
CountedProvider(r) == IF r.provider = "" THEN "unknown" ELSE r.provider

\* The places of the list rs whose resource has fewer than cap resources of
\* its provider before it.
WithinCap(rs, cap) ==
    {i \in 1..Len(rs) :
        Cardinality({j \in 1..(i - 1) : CountedProvider(rs[j]) = CountedProvider(rs[i])}) < cap}

\* C27: what _apply_diversity returns is its input in another order: first
\* the resources that have fewer than max(1, floor(0.4 n)) resources of their
\* provider before them in the input, then all the others, both parts in the
\* order of the input; so the first part has at most that many resources of
\* any provider, and no resource is lost or there twice.
C27_DiversityPermutation ==
    apc = "done" =>
        LET n == Len(dresources)
            cap == IF (40 * n) \div 100 >= 1 THEN (40 * n) \div 100 ELSE 1
            first_part == WithinCap(dresources, cap)
            m == Cardinality(first_part)
        IN  /\ Len(diversified) = n
            /\ \A i \in 1..n : \E k \in 1..n : diversified[k] = dresources[i]
            /\ \A k, l \in 1..n : diversified[k] = diversified[l] => k = l
            /\ \A k \in 1..n : diversified[k].id \in first_part <=> k <= m
            /\ \A k, l \in 1..m : k < l => diversified[k].id < diversified[l].id
            /\ \A k, l \in (m + 1)..n : k < l => diversified[k].id < diversified[l].id
            /\ \A p \in DiversityProviders :
                  Cardinality({k \in 1..m : CountedProvider(diversified[k]) = p}) <= cap

\* A call on five resources, cap two, has put two resources of one provider
\* first and deferred the third of that provider behind a resource of another
\* provider that came after it in the input.
C27_Witness ==
    /\ apc = "done"
    /\ Len(dresources) = 5
    /\ \E k \in 1..4 :
        /\ diversified[k].id > diversified[k + 1].id
        /\ Cardinality({j \in 1..k :
              CountedProvider(diversified[j]) = CountedProvider(diversified[k + 1])}) = 2

C20_NewIdEveryGeneration ==
    /\ \A i, j \in 1..Len(generated) : i # j => generated[i] # generated[j]
    /\ \A id \in DOMAIN first_saved : curricula[id] = first_saved[id]

\* A step in which generate, called with a repository, returns its curriculum
\* leaves that curriculum in the file of its id.
ReturnsPersisted ==
    (has_repo /\ Len(generated') > Len(generated)) =>
        /\ curriculum # None
        /\ curriculum[1].id \in DOMAIN curricula'
        /\ curricula'[curriculum[1].id] = curriculum[1]

\* C21 as stated: generate persists the curriculum before the Best Practices
\* Engine has run, and a generate call with a repository that returns has
\* persisted its curriculum whatever the validation.
C21_PersistedBeforeValidation ==
    [][(curricula' # curricula => validation = "none") /\ ReturnsPersisted]_vars

\* C21 (amended): generate runs the Best Practices Engine first and persists
\* the curriculum afterwards: a step that writes to the repository is taken
\* with the validation report at hand and leaves it as it is, and a generate
\* call with a repository that returns has persisted its curriculum whatever
\* the report says.
C21_ValidatedThenPersisted ==
    [][(curricula' # curricula =>
            validation \in ValidationOutcomes /\ validation' = validation)
       /\ ReturnsPersisted]_vars

\* A generate call with a repository has returned a curriculum whose
\* validation reported errors, and the curriculum is in the repository.
C21_Witness ==
    /\ has_repo
    /\ gpc = "idle"
    /\ validation = "errors"
    /\ generated # <<>>
    /\ generated[Len(generated)] \in DOMAIN curricula
    /\ curricula[generated[Len(generated)]].generated_at = now

\* ==========================================================================
\* More claims about the catalog and its store (specification Spec)
\* ==========================================================================

\* C23: a catalog builds its index from the store at most once, and only
\* before anything is in the index; calls that are started together (gather)
\* run one after the other up to their return, so that the first of them
\* builds the index and the others find it built; an entry that a load or an
\* upsert has put into the index stays in it.
C23_LoadedOnce ==
    /\ loads <= 1
    /\ loaded <=> loads = 1
    /\ ~loaded => cache = EmptyDict
    /\ \A i \in Ids : best[i] >= 0 => i \in DOMAIN cache

\* The calls of one gather have all run to their end on a catalog that has
\* built its index once; two of them were upserts of different resources,
\* and the index holds both.
C23_Witness ==
    /\ \A t \in Tasks : pc[t] = "idle"
    /\ loads = 1
    /\ Cardinality(batch) >= 2
    /\ batch \subseteq DOMAIN cache

\* C28 as stated: when an upsert has raised because the write to the store
\* failed, the index holds nothing of it that the store does not hold: the
\* resource of the call is in the index only if the store has it, with the
\* same score and discovered_at.
C28_IndexMatchesStore ==
    \A t \in Tasks :
        (pc[t] = "return" /\ op[t] = "upsert" /\ result[t] = "raised") =>
            \A i \in {resource[t].id} \cap DOMAIN cache :
                /\ i \in DOMAIN ReadSync(file)
                /\ ReadSync(file)[i] = ModelDump(cache[i])

\* ---------------------------------------------------------------------------
\* The fetch layer under fair scheduling (specification SpecHttpFair)
\* ---------------------------------------------------------------------------

notHttpVars ==
    <<catVars, searchVars, discoveryVars, ingestionVars, dedupVars, pathVars, curriculumVars,
      diversityVars>>

\* What the event loop, the clock and the network owe a call of get: time
\* passes; a coroutine whose sleep is over is run; a coroutine that waits
\* for a lock or a slot gets it when it is free again and again (asyncio
\* hands a Lock and a Semaphore to their waiters in the order they came, so
\* none is passed over for ever); and every request sent is answered or
\* fails.  Nothing obliges a caller to call get or to pick up what it
\* returned.
HttpFairness ==
    /\ WF_vars(Tick /\ UNCHANGED notHttpVars)
    /\ \A f \in Fetchers :
        /\ SF_vars(LimiterEnter(f) /\ UNCHANGED notHttpVars)
        /\ WF_vars(LimiterWake(f) /\ UNCHANGED notHttpVars)
        /\ SF_vars(SemAcquire(f) /\ UNCHANGED notHttpVars)
        /\ WF_vars(Respond(f) /\ UNCHANGED notHttpVars)
        /\ WF_vars(Retry(f) /\ UNCHANGED notHttpVars)

SpecHttpFair == Init /\ [][NextHttp]_vars /\ HttpFairness

\* The calls that hold the lock of a host, and those that hold a slot.
LockHolders == {locks[h] : h \in Hosts} \ {NoTask}

SlotHolders == {f \in Fetchers : fpc[f] = "flight"}

\* No call holds a host's lock and a slot together; a lock is held only by
\* a call asleep in the limiter for that host; the slots taken are those of
\* the requests in flight; with no call under way all is free.
FetchResourcesSound ==
    /\ LockHolders \cap SlotHolders = {}
    /\ \A h \in Hosts : locks[h] # NoTask => fpc[locks[h]] = "sleep" /\ url[locks[h]] = h
    /\ semaphore = MaxConcurrentRequests - Cardinality(SlotHolders)
    /\ semaphore >= 0
    /\ (\A f \in Fetchers : fpc[f] \in {"idle", "returned", "raised"}) =>
          semaphore = MaxConcurrentRequests /\ \A h \in Hosts : locks[h] = NoTask

\* C30: when time passes, ready coroutines run and every request sent is
\* answered or fails, every call of get returns or raises; a host's lock and
\* a slot are never held by one call together, neither is held in a backoff
\* or after the call, and when no call is under way every slot and every
\* lock is free.
C30_FetchTerminatesAndFrees ==
    /\ []FetchResourcesSound
    /\ \A f \in Fetchers : (fpc[f] # "idle") ~> (fpc[f] \in {"returned", "raised"})

\* Both calls are over, one after three failed attempts with two backoffs
\* and one with a response, and every slot and lock is free.
C30_Witness ==
    /\ \E f \in Fetchers : fpc[f] = "raised" /\ attempt[f] = MaxAttempts /\ failed[f] = MaxAttempts
    /\ \E f \in Fetchers : fpc[f] = "returned"
    /\ semaphore = MaxConcurrentRequests
    /\ \A h \in Hosts : locks[h] = NoTask

====
